---- MODULE Spec2Model ----
(***************************************************************************)
(* Model of the connection data service                                    *)
(* (backend/services/mgmt/v1alpha1/connection-data-service/                *)
(* connection-data.go): run resolution for S3-backed sources, the          *)
(* per-request dispatch and validation layer, and S3 row streaming and     *)
(* schema inference.                                                       *)
(*                                                                         *)
(* Each component is a state machine of its own over its own variables;    *)
(* the variables of the other components stay at their idle values.        *)
(*   SpecRunRes    getLastestJobRunFromAwsS3                               *)
(*   SpecDispatch  the entry points: authorization, backend-kind switch,   *)
(*                 schema/table validation, delegation                     *)
(*   SpecS3        S3 row streaming and S3 schema inference                *)
(*   SpecSql       SQL row streaming (Postgres and MySQL)                  *)
(*   SpecCons      the mapping of constraints into the constraint          *)
(*                 responses                                               *)
(***************************************************************************)
EXTENDS Integers, Sequences, FiniteSets, TLC

VARIABLES
    \* ---- run resolution (getLastestJobRunFromAwsS3) ----
    jobRuns,      \* jobRunsResp.Msg.GetRecentRuns(): the history as handed over
    s3Activities, \* per run: what ListObjectsV2 answers for workflows/<runId>/activities/
    rrPc,         \* position in getLastestJobRunFromAwsS3
    i,            \* the loop index (1-based here, 0-based in the source)
    runId,        \* the returned run id (NoRun models "")
    rrErr,        \* the returned error kind ("" models nil)
    \* ---- dispatch and validation (the entry points) ----
    req,          \* req.Msg of the entry point called, with the entry point's name
    connection,   \* connResp.Msg.Connection (aiconnection in GetAiGeneratedData)
    dbconnection, \* dbconnectionResp.Msg.GetConnection() in GetAiGeneratedData
    catalog,      \* the columns the SQL backend's catalog holds
    call,         \* the running call: position, locals, result and what it has touched
    \* ---- S3 row streaming and schema inference ----
    s3,           \* the running S3 loop: position, locals, readers, sink and result
    \* ---- SQL row streaming ----
    sql,          \* the running SQL stream: position, locals, resources, sink and result
    \* ---- constraint responses ----
    cons          \* the running constraint mapping: position, the constraint at hand, output

rrVars == <<jobRuns, s3Activities, rrPc, i, runId, rrErr>>
dVars == <<req, connection, dbconnection, catalog, call>>

vars == <<rrVars, dVars, s3, sql, cons>>

(***************************************************************************)
(* Bounds                                                                  *)
(***************************************************************************)
MaxRuns == 3
MaxKeyCount == 2

\* A run is named by the rank of its start time: a larger number is a more
\* recent run.
Runs == 1..MaxRuns

\* the "" returned beside an error
NoRun == 0

RECURSIVE SeqsOver(_, _)
SeqsOver(S, n) ==
    IF n = 0 THEN {<<>>}
    ELSE LET shorter == SeqsOver(S, n - 1)
         IN  shorter \cup {Append(s, x) : s \in {t \in shorter : Len(t) = n - 1}, x \in S}

Range(s) == {s[k] : k \in DOMAIN s}

IsInjective(s) == \A a, b \in DOMAIN s : s[a] = s[b] => a = b

(***************************************************************************)
(* Idle values: what a component's variables hold while another component  *)
(* is the one running.                                                     *)
(***************************************************************************)
NoConnection == [Id |-> "", kind |-> "", AccountId |-> ""]

RunResIdle ==
    /\ jobRuns = <<>>
    /\ s3Activities = [r \in Runs |-> [kind |-> "nil", KeyCount |-> 0]]
    /\ rrPc = "idle"
    /\ i = 0
    /\ runId = NoRun
    /\ rrErr = ""

DispatchIdle ==
    /\ req = [op |-> "idle"]
    /\ connection = NoConnection
    /\ dbconnection = NoConnection
    /\ catalog = {}
    /\ call = [pc |-> "idle"]

S3Idle == s3 = [pc |-> "idle"]

SqlIdle == sql = [pc |-> "idle"]

ConsIdle == cons = [pc |-> "idle"]

(***************************************************************************)
(* Run resolution                                                          *)
(***************************************************************************)
\* What s.awsManager.ListObjectsV2 can answer: an error, no output, or an
\* output with its KeyCount.
ListOutcomes ==
    {[kind |-> "err", KeyCount |-> 0], [kind |-> "nil", KeyCount |-> 0]}
        \cup {[kind |-> "out", KeyCount |-> n] : n \in 0..MaxKeyCount}

\* if *output.KeyCount > 0
RunHasKeys_NonNegative(output) == output.KeyCount >= 0
RunHasKeys(output) == output.KeyCount > 0

\* for i := len(jobRuns) - 1; ...
FirstIndex(runs) == Len(runs)

\* ...; i >= 0; i--
NextIndex(idx) == idx - 1

RunResInit ==
    /\ jobRuns \in {s \in SeqsOver(Runs, MaxRuns) : IsInjective(s)}
    /\ s3Activities \in [Runs -> ListOutcomes]
    /\ rrPc = "start"
    /\ i = 0
    /\ runId = NoRun
    /\ rrErr = ""
    /\ DispatchIdle
    /\ S3Idle
    /\ SqlIdle
    /\ ConsIdle

\* s.jobService.GetJobRecentRuns fails
RR_GetJobRecentRunsFails ==
    /\ rrPc = "start"
    /\ rrPc' = "done"
    /\ rrErr' = "JobServiceError"
    /\ UNCHANGED <<jobRuns, s3Activities, i, runId>>
    /\ UNCHANGED <<dVars, s3, sql, cons>>

RR_GetJobRecentRuns ==
    /\ rrPc = "start"
    /\ rrPc' = "loop"
    /\ i' = FirstIndex(jobRuns)
    /\ UNCHANGED <<jobRuns, s3Activities, runId, rrErr>>
    /\ UNCHANGED <<dVars, s3, sql, cons>>

\* ListObjectsV2 for the run at i returns an error
RR_ListFails ==
    /\ rrPc = "loop"
    /\ i >= 1
    /\ s3Activities[jobRuns[i]].kind = "err"
    /\ rrPc' = "done"
    /\ rrErr' = "ListError"
    /\ UNCHANGED <<jobRuns, s3Activities, i, runId>>
    /\ UNCHANGED <<dVars, s3, sql, cons>>

\* if output == nil { continue }
RR_NoOutput ==
    /\ rrPc = "loop"
    /\ i >= 1
    /\ s3Activities[jobRuns[i]].kind = "nil"
    /\ i' = NextIndex(i)
    /\ UNCHANGED <<jobRuns, s3Activities, rrPc, runId, rrErr>>
    /\ UNCHANGED <<dVars, s3, sql, cons>>

\* if *output.KeyCount > 0 { return runId, nil }
RR_Found ==
    /\ rrPc = "loop"
    /\ i >= 1
    /\ s3Activities[jobRuns[i]].kind = "out"
    /\ RunHasKeys(s3Activities[jobRuns[i]])
    /\ rrPc' = "done"
    /\ runId' = jobRuns[i]
    /\ UNCHANGED <<jobRuns, s3Activities, i, rrErr>>
    /\ UNCHANGED <<dVars, s3, sql, cons>>

RR_Empty ==
    /\ rrPc = "loop"
    /\ i >= 1
    /\ s3Activities[jobRuns[i]].kind = "out"
    /\ ~RunHasKeys(s3Activities[jobRuns[i]])
    /\ i' = NextIndex(i)
    /\ UNCHANGED <<jobRuns, s3Activities, rrPc, runId, rrErr>>
    /\ UNCHANGED <<dVars, s3, sql, cons>>

\* the loop ran out: return "", nucleuserrors.NewInternalError(...)
RR_Exhausted ==
    /\ rrPc = "loop"
    /\ i < 1
    /\ rrPc' = "done"
    /\ rrErr' = "InternalError"
    /\ UNCHANGED <<jobRuns, s3Activities, i, runId>>
    /\ UNCHANGED <<dVars, s3, sql, cons>>

RunResNext ==
    \/ RR_GetJobRecentRunsFails
    \/ RR_GetJobRecentRuns
    \/ RR_ListFails
    \/ RR_NoOutput
    \/ RR_Found
    \/ RR_Empty
    \/ RR_Exhausted

SpecRunRes == RunResInit /\ [][RunResNext]_vars

(***************************************************************************)
(* Dispatch and validation layer                                           *)
(***************************************************************************)
MaxColumns == 2
MaxRows == 2

Kinds == {"pg", "mysql", "awsS3", "openai"}
SqlKinds == {"pg", "mysql"}
Accounts == {"a1", "a2"}
SchemaNames == {"s1", "s2"}
TableNames == {"t1", "t2"}
ColumnNames == {"id", "name"}

\* mgmtv1alpha1.DatabaseColumn, as far as the dispatch layer reads it
DatabaseColumns ==
    [Schema : SchemaNames, Table : TableNames, Column : ColumnNames]

Catalogs == {c \in SUBSET DatabaseColumns : Cardinality(c) <= MaxColumns}

ConstraintOps ==
    {"GetConnectionForeignConstraints", "GetConnectionPrimaryConstraints",
     "GetConnectionUniqueConstraints", "GetConnectionTableConstraints"}

\* The requests: the entry point with the fields of req.Msg it reads.
\* s3Cfg is the Id of the AwsS3StreamConfig / AwsS3SchemaConfig: "none"
\* when the request carries no such config, "noId" when the config it
\* carries has no Id set.
Request(op, schema, table, cfg, initSchema, truncateBeforeInsert, truncateCascade) ==
    [op |-> op, Schema |-> schema, Table |-> table, s3Cfg |-> cfg,
     InitSchema |-> initSchema, TruncateBeforeInsert |-> truncateBeforeInsert,
     TruncateCascade |-> truncateCascade]

S3Cfgs == {"none", "noId", "jobRunId", "jobId"}

Requests ==
    {Request("GetConnectionDataStream", s, t, c, FALSE, FALSE, FALSE) :
        s \in SchemaNames, t \in TableNames, c \in S3Cfgs}
    \cup {Request("GetConnectionSchema", "s1", "t1", c, FALSE, FALSE, FALSE) :
        c \in S3Cfgs}
    \cup {Request(op, "s1", "t1", "none", FALSE, FALSE, FALSE) : op \in ConstraintOps}
    \cup {Request("GetConnectionInitStatements", "s1", "t1", "none", a, b, c) :
        a \in BOOLEAN, b \in BOOLEAN, c \in BOOLEAN}
    \cup {Request("GetTableRowCount", s, t, "none", FALSE, FALSE, FALSE) :
        s \in SchemaNames, t \in TableNames}
    \cup {Request("GetAiGeneratedData", s, t, "none", FALSE, FALSE, FALSE) :
        s \in SchemaNames, t \in TableNames}

\* Fields that the request's path never reads hold one value only.
NormalRequest ==
    /\ (connection.kind # "awsS3" => req.s3Cfg = "none")
    /\ (req.op # "GetAiGeneratedData" => dbconnection = connection)
    /\ (dbconnection.kind \notin SqlKinds => catalog = {})

\* The caller's accounts: s.verifyUserInAccount(ctx, accountId) succeeds for
\* an account the caller is a member of.
UserAccounts == {"a1"}
verifyUserInAccount(accountId) == accountId \in UserAccounts

NoSchemas == [ok |-> FALSE, cols |-> {}]

\* The answers of the model: chatResp.Choices, each choice with its
\* FinishReason and its Message.Content.  A content is a JSON text: cut short,
\* an object without the data key, an object whose data is not a list, or an
\* object with a list of one or two records under data.
MaxChoices == 1
FinishReasons == {"stop", "length"}
Contents == {"truncated", "noDataKey", "dataNotAList", "oneRecord", "twoRecords"}
Choices == [FinishReason : FinishReasons, Content : Contents]
ChatResponses == [Choices : SeqsOver(Choices, MaxChoices)]
NoChat == [Choices |-> <<>>]

DispatchInit ==
    /\ req \in Requests
    /\ connection \in [Id : {"c1"}, kind : Kinds, AccountId : Accounts]
    /\ dbconnection \in [Id : {"c2"}, kind : Kinds, AccountId : Accounts] \cup {connection}
    /\ catalog \in Catalogs
    /\ NormalRequest
    /\ call = [pc |-> "GetConnection", ret |-> "top", err |-> "", cfg |-> "none",
               schemas |-> NoSchemas, verified |-> {}, touched |-> {},
               queries |-> 0, countQueries |-> 0, rows |-> 0, sent |-> 0,
               dbcols |-> {}, createStmts |-> {}, truncateStmts |-> {},
               resp |-> "", resolved |-> FALSE, chat |-> NoChat,
               decoded |-> FALSE, records |-> 0, jobRunId |-> ""]
    /\ RunResIdle
    /\ S3Idle
    /\ SqlIdle
    /\ ConsIdle

dFrame == <<req, connection, dbconnection, catalog, rrVars, s3, sql, cons>>

At(pc) == call.pc = pc
Op(op) == req.op = op

\* return err (return nil when err is "")
Returned(c, err) == [c EXCEPT !.pc = "done", !.err = err]

\* a backend of the connection is reached for: a SQL connection opened, an S3
\* client created, the model called
Touch(c, id) == [c EXCEPT !.touched = @ \cup {id}]

(* ---- the opening of every entry point ---- *)

\* s.connectionService.GetConnection(ctx, ...) fails
GetConnectionFails ==
    /\ At("GetConnection")
    /\ call' = Returned(call, "GetConnectionError")
    /\ UNCHANGED dFrame

GetConnection ==
    /\ At("GetConnection")
    /\ call' = [call EXCEPT !.pc = "verifyUserInAccount"]
    /\ UNCHANGED dFrame

\* _, err = s.verifyUserInAccount(ctx, connection.AccountId)
VerifyUserInAccount ==
    /\ At("verifyUserInAccount")
    /\ call' = IF verifyUserInAccount(connection.AccountId)
               THEN [call EXCEPT !.pc = "switch",
                                 !.verified = @ \cup {connection.AccountId}]
               ELSE Returned(call, "Unauthorized")
    /\ UNCHANGED dFrame

(* ---- getConnectionSchema and the GetConnectionSchema it calls ---- *)

\* getConnectionSchema: the kinds it builds a schema request for
SchemaRequestKinds == {"pg", "mysql", "awsS3"}

\* getConnectionSchema(ctx, connection, &schemaOpts{}): the callers of this
\* file pass empty options, so the AwsS3SchemaConfig of the request it builds
\* is nil.
getConnectionSchema ==
    /\ At("getConnectionSchema")
    /\ call' = IF connection.kind \in SchemaRequestKinds
               THEN [call EXCEPT !.pc = "cs_GetConnection", !.cfg = "none"]
               ELSE [call EXCEPT !.pc = call.ret, !.err = "NotImplemented"]
    /\ UNCHANGED dFrame

\* GetConnectionSchema returns (nil, err) or (response, nil): to the caller
\* of the entry point, or into getConnectionSchema's caller.
SchemaReturned(c, err, cols) ==
    [c EXCEPT !.pc = IF c.ret = "top" THEN "done" ELSE c.ret,
              !.err = err,
              !.schemas = IF err = "" THEN [ok |-> TRUE, cols |-> cols] ELSE NoSchemas,
              !.resp = IF err = "" /\ c.ret = "top" THEN "schemas" ELSE @]

CS_GetConnectionFails ==
    /\ At("cs_GetConnection")
    /\ call' = SchemaReturned(call, "GetConnectionError", {})
    /\ UNCHANGED dFrame

CS_GetConnection ==
    /\ At("cs_GetConnection")
    /\ call' = [call EXCEPT !.pc = "cs_verifyUserInAccount"]
    /\ UNCHANGED dFrame

CS_VerifyUserInAccount ==
    /\ At("cs_verifyUserInAccount")
    /\ call' = IF verifyUserInAccount(connection.AccountId)
               THEN [call EXCEPT !.pc = "cs_switch",
                                 !.verified = @ \cup {connection.AccountId}]
               ELSE SchemaReturned(call, "Unauthorized", {})
    /\ UNCHANGED dFrame

\* switch config := connection.ConnectionConfig.Config.(type)
CS_Switch ==
    /\ At("cs_switch")
    /\ call' = CASE connection.kind \in SqlKinds -> [call EXCEPT !.pc = "cs_NewSqlDb"]
                 [] connection.kind = "awsS3" ->
                      IF call.cfg = "none"
                      THEN SchemaReturned(call, "BadRequest", {})
                      ELSE [call EXCEPT !.pc = "cs_NewS3Client"]
                 [] OTHER -> SchemaReturned(call, "NotImplemented", {})
    /\ UNCHANGED dFrame

\* db, err := s.sqlmanager.NewSqlDb(...) fails
CS_NewSqlDbFails ==
    /\ At("cs_NewSqlDb")
    /\ call' = SchemaReturned(Touch(call, connection.Id), "ConnectionError", {})
    /\ UNCHANGED dFrame

CS_NewSqlDb ==
    /\ At("cs_NewSqlDb")
    /\ call' = [Touch(call, connection.Id) EXCEPT !.pc = "cs_GetDatabaseSchema"]
    /\ UNCHANGED dFrame

\* dbschema, err := db.Db.GetDatabaseSchema(ctx) fails
CS_GetDatabaseSchemaFails ==
    /\ At("cs_GetDatabaseSchema")
    /\ call' = SchemaReturned(call, "QueryError", {})
    /\ UNCHANGED dFrame

\* one DatabaseColumn per catalog column
CS_GetDatabaseSchema ==
    /\ At("cs_GetDatabaseSchema")
    /\ call' = SchemaReturned(call, "", catalog)
    /\ UNCHANGED dFrame

\* s3Client, err := s.awsManager.NewS3Client(...) fails
CS_NewS3ClientFails ==
    /\ At("cs_NewS3Client")
    /\ call' = SchemaReturned(Touch(call, connection.Id), "ConnectionError", {})
    /\ UNCHANGED dFrame

CS_NewS3Client ==
    /\ At("cs_NewS3Client")
    /\ call' = [Touch(call, connection.Id) EXCEPT !.pc = "cs_id"]
    /\ UNCHANGED dFrame

\* the case of the Id switch that calls getLastestJobRunFromAwsS3
delegatesToHelper_Any(id) == id \in {"jobId", "jobRunId"}
delegatesToHelper(id) == id = "jobId"

\* the run id after the Id switch: id.JobRunId as given, or the helper's runId
jobRunIdOf(id) == IF delegatesToHelper(id) THEN "resolved" ELSE "given"

\* case *mgmtv1alpha1.AwsS3SchemaConfig_JobId: getLastestJobRunFromAwsS3 fails
CS_GetLastestJobRunFails ==
    /\ At("cs_id")
    /\ delegatesToHelper(call.cfg)
    /\ \E e \in {"GetJobRecentRunsError", "ListError", "InternalError"} :
           call' = SchemaReturned([call EXCEPT !.resolved = TRUE], e, {})
    /\ UNCHANGED dFrame

\* switch id := awsCfg.Id.(type)
CS_Id ==
    /\ At("cs_id")
    /\ call' = IF call.cfg \in {"jobRunId", "jobId"}
               THEN [call EXCEPT !.pc = "cs_s3",
                                 !.resolved = delegatesToHelper(call.cfg),
                                 !.jobRunId = jobRunIdOf(call.cfg)]
               ELSE SchemaReturned(call, "InternalError", {})
    /\ UNCHANGED dFrame

\* The schema is inferred from the bucket (SpecS3 models the loop, SpecRunRes
\* the resolution of the run before it): here only whether it fails.
CS_S3SchemaFails ==
    /\ At("cs_s3")
    /\ \E e \in {"ListError", "DecodeError"} :
           call' = SchemaReturned(call, e, {})
    /\ UNCHANGED dFrame

CS_S3Schema ==
    /\ At("cs_s3")
    /\ \E cols \in {{}, {[Schema |-> "s1", Table |-> "t1", Column |-> "id"]}} :
           call' = SchemaReturned(call, "", cols)
    /\ UNCHANGED dFrame

(* ---- GetConnectionDataStream ---- *)

\* switch config := connection.ConnectionConfig.Config.(type)
DS_Switch ==
    /\ At("switch")
    /\ Op("GetConnectionDataStream")
    /\ call' = CASE connection.kind \in SqlKinds ->
                      [call EXCEPT !.pc = "getConnectionSchema",
                                   !.ret = "areSchemaAndTableValid"]
                 [] connection.kind = "awsS3" ->
                      IF req.s3Cfg = "none"
                      THEN Returned(call, "BadRequest")
                      ELSE [call EXCEPT !.pc = "ds_NewS3Client"]
                 [] OTHER -> Returned(call, "NotImplemented")
    /\ UNCHANGED dFrame

isValidTable(table, columns) == \E c \in columns : c.Table = table
isValidSchema(schema, columns) == \E c \in columns : c.Schema = schema

\* if !isValidSchema(schema, schemas) || !isValidTable(table, schemas)
SchemaAndTableRejected_And(schema, table, schemas) ==
    ~isValidSchema(schema, schemas) /\ ~isValidTable(table, schemas)
SchemaAndTableRejected(schema, table, schemas) ==
    ~isValidSchema(schema, schemas) \/ ~isValidTable(table, schemas)

\* areSchemaAndTableValid, once getConnectionSchema has returned
areSchemaAndTableValid ==
    /\ At("areSchemaAndTableValid")
    /\ call' = IF call.err # ""
               THEN Returned(call, call.err)
               ELSE IF SchemaAndTableRejected(req.Schema, req.Table, call.schemas.cols)
                    THEN Returned(call, "BadRequest")
                    ELSE [call EXCEPT !.pc = "ds_NewDb"]
    /\ UNCHANGED dFrame

\* NewDbFromConnectionConfig / NewPgPoolFromConnectionConfig fails
DS_NewDbFails ==
    /\ At("ds_NewDb")
    /\ call' = Returned(call, "ConnectionError")
    /\ UNCHANGED dFrame

DS_NewDb ==
    /\ At("ds_NewDb")
    /\ call' = [call EXCEPT !.pc = "ds_Open"]
    /\ UNCHANGED dFrame

\* db, err := conn.Open() fails
DS_OpenFails ==
    /\ At("ds_Open")
    /\ call' = Returned(Touch(call, connection.Id), "ConnectionError")
    /\ UNCHANGED dFrame

DS_Open ==
    /\ At("ds_Open")
    /\ call' = [Touch(call, connection.Id) EXCEPT !.pc = "ds_probe"]
    /\ UNCHANGED dFrame

\* SELECT * FROM <table> LIMIT 1 fails (with an error that is not NoRows),
\* or r.Columns() fails
DS_ProbeFails ==
    /\ At("ds_probe")
    /\ call' = Returned([call EXCEPT !.queries = @ + 1], "QueryError")
    /\ UNCHANGED dFrame

DS_Probe ==
    /\ At("ds_probe")
    /\ call' = [call EXCEPT !.pc = "ds_select", !.queries = @ + 1]
    /\ UNCHANGED dFrame

\* SELECT <columns> FROM <table> fails
DS_SelectFails ==
    /\ At("ds_select")
    /\ call' = Returned([call EXCEPT !.queries = @ + 1], "QueryError")
    /\ UNCHANGED dFrame

\* the cursor holds the table's rows
DS_Select ==
    /\ At("ds_select")
    /\ \E n \in 0..MaxRows :
           call' = [call EXCEPT !.pc = "ds_Next", !.queries = @ + 1, !.rows = n]
    /\ UNCHANGED dFrame

\* rows.Next() is true and rows.Scan fails
DS_ScanFails ==
    /\ At("ds_Next")
    /\ call.rows > 0
    /\ call' = Returned(call, "ScanError")
    /\ UNCHANGED dFrame

DS_Scan ==
    /\ At("ds_Next")
    /\ call.rows > 0
    /\ call' = [call EXCEPT !.pc = "ds_Send", !.rows = @ - 1]
    /\ UNCHANGED dFrame

\* stream.Send fails
DS_SendFails ==
    /\ At("ds_Send")
    /\ call' = Returned(call, "SendError")
    /\ UNCHANGED dFrame

DS_Send ==
    /\ At("ds_Send")
    /\ call' = [call EXCEPT !.pc = "ds_Next", !.sent = @ + 1]
    /\ UNCHANGED dFrame

\* rows.Next() is false: return nil
DS_EndOfRows ==
    /\ At("ds_Next")
    /\ call.rows = 0
    /\ call' = Returned([call EXCEPT !.resp = "stream"], "")
    /\ UNCHANGED dFrame

\* s3Client, err := s.awsManager.NewS3Client(...) fails
DS_NewS3ClientFails ==
    /\ At("ds_NewS3Client")
    /\ call' = Returned(Touch(call, connection.Id), "ConnectionError")
    /\ UNCHANGED dFrame

DS_NewS3Client ==
    /\ At("ds_NewS3Client")
    /\ call' = [Touch(call, connection.Id) EXCEPT !.pc = "ds_id"]
    /\ UNCHANGED dFrame

\* case *mgmtv1alpha1.AwsS3StreamConfig_JobId: getLastestJobRunFromAwsS3 fails
DS_GetLastestJobRunFails ==
    /\ At("ds_id")
    /\ delegatesToHelper(req.s3Cfg)
    /\ \E e \in {"GetJobRecentRunsError", "ListError", "InternalError"} :
           call' = Returned([call EXCEPT !.resolved = TRUE], e)
    /\ UNCHANGED dFrame

\* switch id := awsS3StreamCfg.Id.(type)
DS_Id ==
    /\ At("ds_id")
    /\ call' = IF req.s3Cfg \in {"jobRunId", "jobId"}
               THEN [call EXCEPT !.pc = "ds_s3",
                                 !.resolved = delegatesToHelper(req.s3Cfg),
                                 !.jobRunId = jobRunIdOf(req.s3Cfg)]
               ELSE Returned(call, "InternalError")
    /\ UNCHANGED dFrame

\* The objects are streamed (SpecS3 models the loop, SpecRunRes the
\* resolution of the run before it): here only whether it fails.
DS_S3StreamFails ==
    /\ At("ds_s3")
    /\ \E e \in {"ListError", "DecodeError", "SendError"} :
           call' = Returned(call, e)
    /\ UNCHANGED dFrame

DS_S3Stream ==
    /\ At("ds_s3")
    /\ call' = Returned([call EXCEPT !.resp = "stream"], "")
    /\ UNCHANGED dFrame

(* ---- GetConnectionSchema as an entry point ---- *)

\* The entry point's own GetConnection and verifyUserInAccount are the
\* opening steps; its switch is CS_Switch with the request's schema config.
SC_Switch ==
    /\ At("switch")
    /\ Op("GetConnectionSchema")
    /\ call' = [call EXCEPT !.pc = "cs_switch", !.cfg = req.s3Cfg, !.ret = "top"]
    /\ UNCHANGED dFrame

(* ---- the constraint getters ---- *)

\* schemaResp, err := s.getConnectionSchema(ctx, connection, &schemaOpts{})
CO_Switch ==
    /\ At("switch")
    /\ req.op \in ConstraintOps
    /\ call' = [call EXCEPT !.pc = "getConnectionSchema", !.ret = "co_schemas"]
    /\ UNCHANGED dFrame

CO_Schemas ==
    /\ At("co_schemas")
    /\ call' = IF call.err # ""
               THEN Returned(call, call.err)
               ELSE [call EXCEPT !.pc = "co_NewSqlDb"]
    /\ UNCHANGED dFrame

CO_NewSqlDbFails ==
    /\ At("co_NewSqlDb")
    /\ call' = Returned(Touch(call, connection.Id), "ConnectionError")
    /\ UNCHANGED dFrame

CO_NewSqlDb ==
    /\ At("co_NewSqlDb")
    /\ call' = [Touch(call, connection.Id) EXCEPT !.pc = "co_query"]
    /\ UNCHANGED dFrame

\* GetForeignKeyConstraintsMap / GetPrimaryKeyConstraintsMap /
\* GetUniqueConstraintsMap / GetTableConstraintsBySchema fails
CO_QueryFails ==
    /\ At("co_query")
    /\ call' = Returned(call, "QueryError")
    /\ UNCHANGED dFrame

CO_Query ==
    /\ At("co_query")
    /\ call' = Returned([call EXCEPT !.resp = "constraints"], "")
    /\ UNCHANGED dFrame

(* ---- GetConnectionInitStatements ---- *)

IS_Switch ==
    /\ At("switch")
    /\ Op("GetConnectionInitStatements")
    /\ call' = [call EXCEPT !.pc = "getConnectionSchema", !.ret = "is_schemas"]
    /\ UNCHANGED dFrame

IS_Schemas ==
    /\ At("is_schemas")
    /\ call' = IF call.err # ""
               THEN Returned(call, call.err)
               ELSE [call EXCEPT !.pc = "is_NewSqlDb"]
    /\ UNCHANGED dFrame

IS_NewSqlDbFails ==
    /\ At("is_NewSqlDb")
    /\ call' = Returned(Touch(call, connection.Id), "ConnectionError")
    /\ UNCHANGED dFrame

IS_NewSqlDb ==
    /\ At("is_NewSqlDb")
    /\ call' = [Touch(call, connection.Id) EXCEPT !.pc = "is_create"]
    /\ UNCHANGED dFrame

\* schemaTableMap[sql_manager.BuildTable(s.Schema, s.Table)] = s: its keys
schemaTableMap_PerColumn(schemaResp) == {<<c.Schema, c.Table, c.Column>> : c \in schemaResp}
schemaTableMap(schemaResp) == {<<c.Schema, c.Table>> : c \in schemaResp}

\* db.Db.GetCreateTableStatement fails for a table
IS_CreateStatementFails ==
    /\ At("is_create")
    /\ req.InitSchema
    /\ schemaTableMap(call.schemas.cols) # {}
    /\ call' = Returned(call, "QueryError")
    /\ UNCHANGED dFrame

IS_CreateStatements ==
    /\ At("is_create")
    /\ call' = [call EXCEPT !.pc = "is_truncate",
                            !.createStmts = IF req.InitSchema
                                            THEN schemaTableMap(call.schemas.cols)
                                            ELSE {}]
    /\ UNCHANGED dFrame

\* the truncate statements the request asks for can be built
truncateSupported(kind, truncateBeforeInsert, truncateCascade) ==
    \/ kind = "mysql" /\ truncateBeforeInsert
    \/ kind = "pg" /\ truncateCascade

\* else if req.Msg.GetOptions().GetTruncateBeforeInsert(), in the PgConfig case
pgTruncateUnsupported_Ignored(truncateBeforeInsert, truncateCascade) == FALSE
pgTruncateUnsupported(truncateBeforeInsert, truncateCascade) ==
    ~truncateCascade /\ truncateBeforeInsert

\* BuildMysqlTruncateStatement / BuildPgTruncateCascadeStatement fails for a
\* table
IS_TruncateStatementFails ==
    /\ At("is_truncate")
    /\ truncateSupported(connection.kind, req.TruncateBeforeInsert, req.TruncateCascade)
    /\ schemaTableMap(call.schemas.cols) # {}
    /\ call' = Returned([call EXCEPT !.createStmts = {}], "BuildError")
    /\ UNCHANGED dFrame

\* switch connection.Msg.Connection.ConnectionConfig.Config.(type)
IS_Truncate ==
    /\ At("is_truncate")
    /\ LET tables == schemaTableMap(call.schemas.cols)
           ok(stmts) == Returned([call EXCEPT !.truncateStmts = stmts,
                                              !.resp = "statements"], "")
           failed(err) == Returned([call EXCEPT !.createStmts = {}], err)
       IN  call' =
             CASE connection.kind = "mysql" ->
                    IF req.TruncateBeforeInsert
                    THEN ok({[table |-> t, stmt |-> "truncate"] : t \in tables})
                    ELSE ok({})
               [] connection.kind = "pg" ->
                    IF req.TruncateCascade
                    THEN ok({[table |-> t, stmt |-> "truncate cascade"] : t \in tables})
                    ELSE IF pgTruncateUnsupported(req.TruncateBeforeInsert,
                                                  req.TruncateCascade)
                         THEN failed("NotImplemented")
                         ELSE ok({})
               [] OTHER -> failed("Unsupported")
    /\ UNCHANGED dFrame

(* ---- GetTableRowCount ---- *)

\* db, err := s.sqlmanager.NewSqlDb(...) fails: always for a connection that
\* is no SQL connection
RC_NewSqlDbFails ==
    /\ At("switch")
    /\ Op("GetTableRowCount")
    /\ call' = Returned(IF connection.kind \in SqlKinds
                        THEN Touch(call, connection.Id) ELSE call, "ConnectionError")
    /\ UNCHANGED dFrame

RC_NewSqlDb ==
    /\ At("switch")
    /\ Op("GetTableRowCount")
    /\ connection.kind \in SqlKinds
    /\ call' = [Touch(call, connection.Id) EXCEPT !.pc = "rc_GetTableRowCount"]
    /\ UNCHANGED dFrame

\* count, err := db.Db.GetTableRowCount(ctx, req.Msg.Schema, req.Msg.Table, ...)
RC_GetTableRowCountFails ==
    /\ At("rc_GetTableRowCount")
    /\ call' = Returned([call EXCEPT !.countQueries = @ + 1], "QueryError")
    /\ UNCHANGED dFrame

RC_GetTableRowCount ==
    /\ At("rc_GetTableRowCount")
    /\ call' = Returned([call EXCEPT !.countQueries = @ + 1, !.resp = "count"], "")
    /\ UNCHANGED dFrame

(* ---- GetAiGeneratedData ---- *)

\* dbconnectionResp, err := s.connectionService.GetConnection(...) fails
AI_GetDbConnectionFails ==
    /\ At("switch")
    /\ Op("GetAiGeneratedData")
    /\ call' = Returned(call, "GetConnectionError")
    /\ UNCHANGED dFrame

AI_GetDbConnection ==
    /\ At("switch")
    /\ Op("GetAiGeneratedData")
    /\ call' = [call EXCEPT !.pc = "getConnectionTableSchema"]
    /\ UNCHANGED dFrame

\* getConnectionTableSchema: switch cconfig := connection.ConnectionConfig.Config.(type)
TS_Switch ==
    /\ At("getConnectionTableSchema")
    /\ call' = IF dbconnection.kind \in SqlKinds
               THEN [call EXCEPT !.pc = "ts_NewConn"]
               ELSE Returned(call, "BadRequest")
    /\ UNCHANGED dFrame

TS_NewConnFails ==
    /\ At("ts_NewConn")
    /\ call' = Returned(call, "ConnectionError")
    /\ UNCHANGED dFrame

TS_NewConn ==
    /\ At("ts_NewConn")
    /\ call' = [call EXCEPT !.pc = "ts_Open"]
    /\ UNCHANGED dFrame

TS_OpenFails ==
    /\ At("ts_Open")
    /\ call' = Returned(Touch(call, dbconnection.Id), "ConnectionError")
    /\ UNCHANGED dFrame

TS_Open ==
    /\ At("ts_Open")
    /\ call' = [Touch(call, dbconnection.Id) EXCEPT !.pc = "ts_query"]
    /\ UNCHANGED dFrame

\* GetDatabaseTableSchema (pg) / GetDatabaseSchema (mysql) fails
TS_QueryFails ==
    /\ At("ts_query")
    /\ call' = Returned(call, "QueryError")
    /\ UNCHANGED dFrame

\* the columns of the requested table (pg: filtered by the query; mysql:
\* filtered client-side)
TS_Query ==
    /\ At("ts_query")
    /\ call' = [call EXCEPT !.pc = "ai_openaiconfig",
                            !.dbcols = {c \in catalog : c.Schema = req.Schema
                                                        /\ c.Table = req.Table}]
    /\ UNCHANGED dFrame

\* openaiconfig := aiconnection.GetConnectionConfig().GetOpenaiConfig()
AI_OpenaiConfig ==
    /\ At("ai_openaiconfig")
    /\ call' = IF connection.kind = "openai"
               THEN [call EXCEPT !.pc = "ai_GetChatCompletions"]
               ELSE Returned(call, "BadRequest")
    /\ UNCHANGED dFrame

\* client.GetChatCompletions(ctx, ...) fails
AI_GetChatCompletionsFails ==
    /\ At("ai_GetChatCompletions")
    /\ call' = Returned(Touch(call, connection.Id), "UpstreamError")
    /\ UNCHANGED dFrame

AI_GetChatCompletions ==
    /\ At("ai_GetChatCompletions")
    /\ \E chatResp \in ChatResponses :
           call' = [Touch(call, connection.Id) EXCEPT !.pc = "ai_Choices",
                                                      !.chat = chatResp]
    /\ UNCHANGED dFrame

\* *choice.FinishReason == azopenai.CompletionsFinishReasonTokenLimitReached
tokenLimitReached_Never(choice) == FALSE
tokenLimitReached(choice) == choice.FinishReason = "length"

\* json.Unmarshal([]byte(*choice.Message.Content), &dataResponse) into
\* completionResponse{Data []map[string]any `json:"data"`}
unmarshalFails(content) == content \in {"truncated", "dataNotAList"}
lenData(content) ==
    CASE content = "oneRecord" -> 1
      [] content = "twoRecords" -> 2
      [] OTHER -> 0

\* if len(chatResp.Choices) == 0
AI_NoChoices ==
    /\ At("ai_Choices")
    /\ Len(call.chat.Choices) = 0
    /\ call' = Returned([call EXCEPT !.chat = NoChat], "NoChoices")
    /\ UNCHANGED dFrame

\* choice := chatResp.Choices[0] stopped at the token limit
AI_TokenLimitReached ==
    /\ At("ai_Choices")
    /\ Len(call.chat.Choices) > 0
    /\ tokenLimitReached(call.chat.Choices[1])
    /\ call' = Returned([call EXCEPT !.chat = NoChat], "CompletionLimitReached")
    /\ UNCHANGED dFrame

\* the content of the first choice does not decode
AI_UnmarshalFails ==
    /\ At("ai_Choices")
    /\ Len(call.chat.Choices) > 0
    /\ ~tokenLimitReached(call.chat.Choices[1])
    /\ unmarshalFails(call.chat.Choices[1].Content)
    /\ call' = Returned([call EXCEPT !.chat = NoChat, !.decoded = TRUE],
                        "UnmarshalError")
    /\ UNCHANGED dFrame

\* the content decodes; one dto record per element of dataResponse.Data
AI_Unmarshal ==
    /\ At("ai_Choices")
    /\ Len(call.chat.Choices) > 0
    /\ ~tokenLimitReached(call.chat.Choices[1])
    /\ ~unmarshalFails(call.chat.Choices[1].Content)
    /\ call' = Returned([call EXCEPT !.chat = NoChat,
                                     !.decoded = TRUE,
                                     !.records = lenData(call.chat.Choices[1].Content),
                                     !.resp = "records"], "")
    /\ UNCHANGED dFrame

DispatchNext ==
    \/ GetConnectionFails
    \/ GetConnection
    \/ VerifyUserInAccount
    \/ getConnectionSchema
    \/ CS_GetConnectionFails
    \/ CS_GetConnection
    \/ CS_VerifyUserInAccount
    \/ CS_Switch
    \/ CS_NewSqlDbFails
    \/ CS_NewSqlDb
    \/ CS_GetDatabaseSchemaFails
    \/ CS_GetDatabaseSchema
    \/ CS_NewS3ClientFails
    \/ CS_NewS3Client
    \/ CS_GetLastestJobRunFails
    \/ CS_Id
    \/ CS_S3SchemaFails
    \/ CS_S3Schema
    \/ DS_Switch
    \/ areSchemaAndTableValid
    \/ DS_NewDbFails
    \/ DS_NewDb
    \/ DS_OpenFails
    \/ DS_Open
    \/ DS_ProbeFails
    \/ DS_Probe
    \/ DS_SelectFails
    \/ DS_Select
    \/ DS_ScanFails
    \/ DS_Scan
    \/ DS_SendFails
    \/ DS_Send
    \/ DS_EndOfRows
    \/ DS_NewS3ClientFails
    \/ DS_NewS3Client
    \/ DS_GetLastestJobRunFails
    \/ DS_Id
    \/ DS_S3StreamFails
    \/ DS_S3Stream
    \/ SC_Switch
    \/ CO_Switch
    \/ CO_Schemas
    \/ CO_NewSqlDbFails
    \/ CO_NewSqlDb
    \/ CO_QueryFails
    \/ CO_Query
    \/ IS_Switch
    \/ IS_Schemas
    \/ IS_NewSqlDbFails
    \/ IS_NewSqlDb
    \/ IS_CreateStatementFails
    \/ IS_CreateStatements
    \/ IS_TruncateStatementFails
    \/ IS_Truncate
    \/ RC_NewSqlDbFails
    \/ RC_NewSqlDb
    \/ RC_GetTableRowCountFails
    \/ RC_GetTableRowCount
    \/ AI_GetDbConnectionFails
    \/ AI_GetDbConnection
    \/ TS_Switch
    \/ TS_NewConnFails
    \/ TS_NewConn
    \/ TS_OpenFails
    \/ TS_Open
    \/ TS_QueryFails
    \/ TS_Query
    \/ AI_OpenaiConfig
    \/ AI_GetChatCompletionsFails
    \/ AI_GetChatCompletions
    \/ AI_NoChoices
    \/ AI_TokenLimitReached
    \/ AI_UnmarshalFails
    \/ AI_Unmarshal

SpecDispatch == DispatchInit /\ [][DispatchNext]_vars

(***************************************************************************)
(* S3 row streaming (GetConnectionDataStream, AwsS3Config branch) and S3   *)
(* schema inference (GetConnectionSchema, AwsS3Config branch), from the    *)
(* first listing on: the run id is resolved.  The bucket answers each call *)
(* as the call is made.                                                    *)
(***************************************************************************)
MaxPages == 2
MaxObjects == 2
MaxLines == 2

\* NextContinuationToken values; "" models a nil token
Tokens == {"t1", "t2"}

(* ---- JSON lines and their conversion to a row ---- *)

Keys == {"a", "b", "c"}

\* A JSON value as it stands in a line: a string (quoted) or a literal.
JsonString(text) == [quoted |-> TRUE, text |-> text]
JsonLiteral(text) == [quoted |-> FALSE, text |-> text]
JsonValues ==
    {JsonString("x"), JsonString("null"),
     JsonLiteral("5"), JsonLiteral("5.0"), JsonLiteral("null")}

\* A line of an object: a JSON object over some keys, or bytes that are no
\* JSON object.
JsonLines == UNION {[D -> JsonValues] : D \in SUBSET Keys}
Line(fields) == [valid |-> TRUE, fields |-> fields]
BadLine == [valid |-> FALSE, fields |-> [k \in {} |-> JsonLiteral("null")]]
Lines == {Line(f) : f \in JsonLines} \cup {BadLine}

\* Schema inference reads the keys of a line only.
KeyLines == {Line([k \in D |-> JsonString("x")]) : D \in SUBSET Keys}

\* a JSON number read into a float64, and a float64 written as a JSON
\* number: the shortest text that reads back as the same float64
ParseFloat(text) == CASE text = "5" -> 5 [] text = "5.0" -> 5 [] OTHER -> 0
FormatFloat(num) == CASE num = 5 -> "5" [] OTHER -> "0"

\* json.Unmarshal(line, &data): the Go value of each JSON value
GoValue(v) ==
    CASE v.quoted -> [type |-> "string", text |-> v.text, num |-> 0]
      [] v.text = "null" -> [type |-> "nil", text |-> "", num |-> 0]
      [] OTHER -> [type |-> "float64", text |-> "", num |-> ParseFloat(v.text)]

Unmarshal(line) == [k \in DOMAIN line.fields |-> GoValue(line.fields[k])]

\* a []byte: the text, between double quotes when quoted
Bytes(quoted, text) == [nil |-> FALSE, quoted |-> quoted, text |-> text]
NilBytes == [nil |-> TRUE, quoted |-> FALSE, text |-> ""]

\* json.Marshal(value)
Marshal(value) ==
    CASE value.type = "string" -> Bytes(TRUE, value.text)
      [] value.type = "nil" -> Bytes(FALSE, "null")
      [] OTHER -> Bytes(FALSE, FormatFloat(value.num))

\* the body of the loop over data: the []byte stored under a key
byteValue_NullText(value) ==
    IF value.type = "string"
    THEN Bytes(FALSE, value.text)
    ELSE Marshal(value)
byteValue(value) ==
    IF value.type = "string"
    THEN Bytes(FALSE, value.text)
    ELSE IF Marshal(value) = Bytes(FALSE, "null") THEN NilBytes ELSE Marshal(value)

\* rowMap, once the loop over data has run
rowMapOf(data) == [k \in DOMAIN data |-> byteValue(data[k])]

(* ---- the bucket's answers ---- *)

\* An object as GetObject returns it: whether its gzip stream is sound, has
\* a corrupt header, or is corrupt further on; the number of lines that can
\* be read from it (all of them when the stream is sound).
Objects ==
    {[gz |-> "ok", readable |-> k] : k \in 0..MaxLines}
    \cup {[gz |-> "badHeader", readable |-> 0]}
    \cup {[gz |-> "badBody", readable |-> k] : k \in 0..MaxLines}
NoObject == [gz |-> "", readable |-> 0]

\* A listing page: the number of its Contents (or CommonPrefixes),
\* IsTruncated and NextContinuationToken.
Outputs(last) ==
    {[n |-> k, IsTruncated |-> FALSE, NextContinuationToken |-> ""] : k \in 0..MaxObjects}
    \cup IF last THEN {}
         ELSE {[n |-> k, IsTruncated |-> TRUE, NextContinuationToken |-> t] :
                  k \in 0..MaxObjects, t \in Tokens}
NoOutput == [n |-> 0, IsTruncated |-> FALSE, NextContinuationToken |-> ""]

\* if *output.IsTruncated
moreToList_Never(output) == FALSE
moreToList(output) == output.IsTruncated

\* pageToken = output.NextContinuationToken
nextPageToken(output) == output.NextContinuationToken

(* ---- readers ---- *)

Reader(obj, reader) == [obj |-> obj, reader |-> reader]

\* result.Body.Close()
closeBody_Forgotten(open, obj) == open
closeBody(open, obj) == open \ {Reader(obj, "body")}

\* gzr.Close()
closeGzip(open, obj) == open \ {Reader(obj, "gzip")}

\* scanner.Err() != nil once scanner.Scan() has returned false: the gzip
\* stream broke off
scannerErr_Unchecked(object) == FALSE
scannerErr(object) == object.gz = "badBody"

\* rowMap := make(map[string][]byte)
NoRow == [k \in {} |-> NilBytes]

\* The state of one call.  pages counts the listing pages received and
\* called is the ContinuationToken of the latest listing call; unfetched
\* counts the objects listed and not yet fetched, unsent the lines of the
\* fetched objects not yet sent, sentHere the rows sent from the object
\* being read, and lenSchemas is len(schemas).
S3Init ==
    /\ s3 \in [op : {"stream", "schema"}, pc : {"list"}, pageToken : {""},
               called : {""}, output : {NoOutput}, pages : {0},
               noOutput : {FALSE}, idx : {0}, object : {NoObject}, lineNo : {0},
               line : {BadLine}, rowMap : {NoRow}, open : {{}},
               sentHere : {0}, unsent : {0}, unfetched : {0},
               corrupt : {FALSE}, lenSchemas : {0}, err : {""}]
    /\ RunResIdle
    /\ DispatchIdle
    /\ SqlIdle
    /\ ConsIdle

s3Frame == <<rrVars, dVars, sql, cons>>

S3At(op, pc) == s3.op = op /\ s3.pc = pc

\* the object being read: the page it was listed on and its place there
Current == <<s3.pages, s3.idx + 1>>

\* return err, with the readers as the path has left them; the loop's
\* locals are gone
S3Returned(s, err) ==
    [s EXCEPT !.pc = "done", !.err = err, !.line = BadLine, !.rowMap = NoRow]

\* both closes of an exit taken while an object is being read
closeBoth(open, obj) == closeGzip(closeBody(open, obj), obj)

(* ---- GetConnectionDataStream, AwsS3Config branch: the listing loop ---- *)

\* output, err := s.awsManager.ListObjectsV2(..., ContinuationToken: pageToken) fails
ST_ListFails ==
    /\ S3At("stream", "list")
    /\ s3' = S3Returned([s3 EXCEPT !.called = s3.pageToken], "ListError")
    /\ UNCHANGED s3Frame

\* if output == nil { break }
ST_ListNoOutput ==
    /\ S3At("stream", "list")
    /\ s3' = S3Returned([s3 EXCEPT !.called = s3.pageToken, !.noOutput = TRUE], "")
    /\ UNCHANGED s3Frame

ST_List ==
    /\ S3At("stream", "list")
    /\ \E out \in Outputs(s3.pages + 1 >= MaxPages) :
           s3' = [s3 EXCEPT !.pc = "contents",
                            !.called = s3.pageToken,
                            !.output = out,
                            !.pages = @ + 1,
                            !.idx = 0,
                            !.unfetched = @ + out.n]
    /\ UNCHANGED s3Frame

\* result, err := s.awsManager.GetObject(...) fails
ST_GetObjectFails ==
    /\ S3At("stream", "contents")
    /\ s3.idx < s3.output.n
    /\ s3' = S3Returned(s3, "GetObjectError")
    /\ UNCHANGED s3Frame

ST_GetObject ==
    /\ S3At("stream", "contents")
    /\ s3.idx < s3.output.n
    /\ \E o \in Objects :
           s3' = [s3 EXCEPT !.pc = "gzip",
                            !.object = o,
                            !.lineNo = 0,
                            !.sentHere = 0,
                            !.open = @ \cup {Reader(Current, "body")},
                            !.unfetched = @ - 1,
                            !.unsent = @ + o.readable]
    /\ UNCHANGED s3Frame

\* gzr, err := gzip.NewReader(result.Body) fails on the header
ST_GzipFails ==
    /\ S3At("stream", "gzip")
    /\ s3.object.gz = "badHeader"
    /\ s3' = S3Returned([s3 EXCEPT !.open = closeBody(@, Current),
                                   !.corrupt = TRUE], "GzipError")
    /\ UNCHANGED s3Frame

ST_Gzip ==
    /\ S3At("stream", "gzip")
    /\ s3.object.gz # "badHeader"
    /\ s3' = [s3 EXCEPT !.pc = "Scan", !.open = @ \cup {Reader(Current, "gzip")}]
    /\ UNCHANGED s3Frame

\* for scanner.Scan() { line := scanner.Bytes(): one more line is read
scanned_Two(lineNo) == lineNo + 2
scanned(lineNo) == lineNo + 1

\* scanner.Scan() is true, the line decodes and the loop over data fills
\* rowMap
ST_Scan ==
    /\ S3At("stream", "Scan")
    /\ s3.lineNo < s3.object.readable
    /\ \E l \in Lines :
           /\ l.valid
           /\ s3' = [s3 EXCEPT !.pc = "Send",
                               !.line = l,
                               !.lineNo = scanned(@),
                               !.rowMap = rowMapOf(Unmarshal(l))]
    /\ UNCHANGED s3Frame

\* scanner.Scan() is true and err = json.Unmarshal(line, &data) fails: the
\* line is no JSON object
ST_UnmarshalFails ==
    /\ S3At("stream", "Scan")
    /\ s3.lineNo < s3.object.readable
    /\ s3' = S3Returned([s3 EXCEPT !.lineNo = @ + 1,
                                   !.open = closeBoth(@, Current)], "JsonError")
    /\ UNCHANGED s3Frame

\* scanner.Scan() is true at the place the gzip stream breaks off: the bytes
\* read before it are handed over as a last token, which is no whole
\* record, and json.Unmarshal fails on it
ST_ScanBroken ==
    /\ S3At("stream", "Scan")
    /\ s3.object.gz = "badBody"
    /\ s3.lineNo = s3.object.readable
    /\ s3' = S3Returned([s3 EXCEPT !.corrupt = TRUE,
                                   !.open = closeBoth(@, Current)], "JsonError")
    /\ UNCHANGED s3Frame

\* stream.Send(&...{Row: rowMap}) fails
ST_SendFails ==
    /\ S3At("stream", "Send")
    /\ s3' = S3Returned([s3 EXCEPT !.open = closeBoth(@, Current)], "SendError")
    /\ UNCHANGED s3Frame

ST_Send ==
    /\ S3At("stream", "Send")
    /\ s3' = [s3 EXCEPT !.pc = "Scan",
                        !.sentHere = @ + 1,
                        !.unsent = @ - 1,
                        !.line = BadLine,
                        !.rowMap = NoRow]
    /\ UNCHANGED s3Frame

\* scanner.Scan() is false and scanner.Err() != nil
ST_ScannerErr ==
    /\ S3At("stream", "Scan")
    /\ s3.lineNo = s3.object.readable
    /\ scannerErr(s3.object)
    /\ s3' = S3Returned([s3 EXCEPT !.open = closeBoth(@, Current),
                                   !.corrupt = TRUE], "ScanError")
    /\ UNCHANGED s3Frame

\* for _, item := range output.Contents: the loop goes on to the next item
nextItem_Same(idx) == idx
nextItem(idx) == idx + 1

\* scanner.Scan() is false and scanner.Err() == nil: the object is done
ST_EndOfObject ==
    /\ S3At("stream", "Scan")
    /\ s3.lineNo = s3.object.readable
    /\ ~scannerErr(s3.object)
    /\ s3' = [s3 EXCEPT !.pc = "contents",
                        !.open = closeBoth(@, Current),
                        !.idx = nextItem(@)]
    /\ UNCHANGED s3Frame

\* if *output.IsTruncated { pageToken = output.NextContinuationToken; continue }
ST_NextPage ==
    /\ S3At("stream", "contents")
    /\ s3.idx = s3.output.n
    /\ moreToList(s3.output)
    /\ s3' = [s3 EXCEPT !.pc = "list", !.pageToken = nextPageToken(s3.output)]
    /\ UNCHANGED s3Frame

\* break; return nil
ST_Break ==
    /\ S3At("stream", "contents")
    /\ s3.idx = s3.output.n
    /\ ~moreToList(s3.output)
    /\ s3' = S3Returned(s3, "")
    /\ UNCHANGED s3Frame

(* ---- GetConnectionSchema, AwsS3Config branch: the inference loop ---- *)

\* output, err := s.awsManager.ListObjectsV2(..., Delimiter: "/", ...) fails
SI_ListFails ==
    /\ S3At("schema", "list")
    /\ s3' = S3Returned([s3 EXCEPT !.called = s3.pageToken], "ListError")
    /\ UNCHANGED s3Frame

\* if output == nil { break }
SI_ListNoOutput ==
    /\ S3At("schema", "list")
    /\ s3' = S3Returned([s3 EXCEPT !.called = s3.pageToken, !.noOutput = TRUE], "")
    /\ UNCHANGED s3Frame

\* the page's CommonPrefixes: one per table
SI_List ==
    /\ S3At("schema", "list")
    /\ \E out \in Outputs(s3.pages + 1 >= MaxPages) :
           s3' = [s3 EXCEPT !.pc = "prefixes",
                            !.called = s3.pageToken,
                            !.output = out,
                            !.pages = @ + 1,
                            !.idx = 0,
                            !.unfetched = @ + out.n]
    /\ UNCHANGED s3Frame

\* out, err := s.awsManager.ListObjectsV2(..., Prefix: filePath, MaxKeys: 1) fails
SI_DataListFails ==
    /\ S3At("schema", "prefixes")
    /\ s3.idx < s3.output.n
    /\ s3' = S3Returned(s3, "ListError")
    /\ UNCHANGED s3Frame

\* if out == nil { break }: leaves the loop over the page's prefixes
SI_DataListNoOutput ==
    /\ S3At("schema", "prefixes")
    /\ s3.idx < s3.output.n
    /\ s3' = [s3 EXCEPT !.pc = "truncated"]
    /\ UNCHANGED s3Frame

\* item := out.Contents[0] with no Contents: index out of range
SI_DataListEmpty ==
    /\ S3At("schema", "prefixes")
    /\ s3.idx < s3.output.n
    /\ s3' = S3Returned(s3, "panic")
    /\ UNCHANGED s3Frame

SI_DataList ==
    /\ S3At("schema", "prefixes")
    /\ s3.idx < s3.output.n
    /\ s3' = [s3 EXCEPT !.pc = "GetObject"]
    /\ UNCHANGED s3Frame

SI_GetObjectFails ==
    /\ S3At("schema", "GetObject")
    /\ s3' = S3Returned(s3, "GetObjectError")
    /\ UNCHANGED s3Frame

SI_GetObject ==
    /\ S3At("schema", "GetObject")
    /\ \E o \in Objects :
           s3' = [s3 EXCEPT !.pc = "gzip",
                            !.object = o,
                            !.lineNo = 0,
                            !.open = @ \cup {Reader(Current, "body")},
                            !.unfetched = @ - 1]
    /\ UNCHANGED s3Frame

SI_GzipFails ==
    /\ S3At("schema", "gzip")
    /\ s3.object.gz = "badHeader"
    /\ s3' = S3Returned([s3 EXCEPT !.open = closeBody(@, Current),
                                   !.corrupt = TRUE], "GzipError")
    /\ UNCHANGED s3Frame

SI_Gzip ==
    /\ S3At("schema", "gzip")
    /\ s3.object.gz # "badHeader"
    /\ s3' = [s3 EXCEPT !.pc = "Scan", !.open = @ \cup {Reader(Current, "gzip")}]
    /\ UNCHANGED s3Frame

\* if scanner.Scan() { ... }: the first line decodes and
\* for key := range data { schemas = append(schemas, ...) }
SI_Scan ==
    /\ S3At("schema", "Scan")
    /\ s3.object.readable > 0
    /\ \E l \in KeyLines :
           s3' = [s3 EXCEPT !.pc = "Err",
                            !.lineNo = 1,
                            !.lenSchemas = @ + Cardinality(DOMAIN Unmarshal(l))]
    /\ UNCHANGED s3Frame

\* the first line is no JSON object
SI_UnmarshalFails ==
    /\ S3At("schema", "Scan")
    /\ s3.object.readable > 0
    /\ s3' = S3Returned([s3 EXCEPT !.lineNo = 1,
                                   !.open = closeBoth(@, Current)], "JsonError")
    /\ UNCHANGED s3Frame

\* the gzip stream breaks off within the first line: the bytes before the
\* break are handed over as the token and json.Unmarshal fails on it
SI_ScanBroken ==
    /\ S3At("schema", "Scan")
    /\ s3.object.gz = "badBody"
    /\ s3.object.readable = 0
    /\ s3' = S3Returned([s3 EXCEPT !.corrupt = TRUE,
                                   !.open = closeBoth(@, Current)], "JsonError")
    /\ UNCHANGED s3Frame

\* scanner.Scan() is false: no line was read
SI_ScanNothing ==
    /\ S3At("schema", "Scan")
    /\ s3.object.readable = 0
    /\ s3' = [s3 EXCEPT !.pc = "Err"]
    /\ UNCHANGED s3Frame

\* scanner.Err() != nil: the gzip stream broke off within what the scanner
\* has read
SI_ScannerErr ==
    /\ S3At("schema", "Err")
    /\ scannerErr(s3.object)
    /\ s3' = S3Returned([s3 EXCEPT !.open = closeBoth(@, Current),
                                   !.corrupt = TRUE], "ScanError")
    /\ UNCHANGED s3Frame

\* scanner.Err() == nil (a break further on than the scanner has read is
\* not met): on to the next prefix
SI_EndOfObject ==
    /\ S3At("schema", "Err")
    /\ ~scannerErr(s3.object) \/ s3.lineNo > 0
    /\ s3' = [s3 EXCEPT !.pc = "prefixes",
                        !.open = closeBoth(@, Current),
                        !.idx = @ + 1]
    /\ UNCHANGED s3Frame

\* the loop over the page's prefixes is over
SI_AfterPrefixes ==
    \/ S3At("schema", "truncated")
    \/ S3At("schema", "prefixes") /\ s3.idx = s3.output.n

SI_NextPage ==
    /\ SI_AfterPrefixes
    /\ moreToList(s3.output)
    /\ s3' = [s3 EXCEPT !.pc = "list", !.pageToken = nextPageToken(s3.output)]
    /\ UNCHANGED s3Frame

\* break; return the response
SI_Break ==
    /\ SI_AfterPrefixes
    /\ ~moreToList(s3.output)
    /\ s3' = S3Returned(s3, "")
    /\ UNCHANGED s3Frame

S3Next ==
    \/ ST_ListFails
    \/ ST_ListNoOutput
    \/ ST_List
    \/ ST_GetObjectFails
    \/ ST_GetObject
    \/ ST_GzipFails
    \/ ST_Gzip
    \/ ST_Scan
    \/ ST_UnmarshalFails
    \/ ST_ScanBroken
    \/ ST_SendFails
    \/ ST_Send
    \/ ST_ScannerErr
    \/ ST_EndOfObject
    \/ ST_NextPage
    \/ ST_Break
    \/ SI_ListFails
    \/ SI_ListNoOutput
    \/ SI_List
    \/ SI_DataListFails
    \/ SI_DataListNoOutput
    \/ SI_DataListEmpty
    \/ SI_DataList
    \/ SI_GetObjectFails
    \/ SI_GetObject
    \/ SI_GzipFails
    \/ SI_Gzip
    \/ SI_Scan
    \/ SI_UnmarshalFails
    \/ SI_ScanBroken
    \/ SI_ScanNothing
    \/ SI_ScannerErr
    \/ SI_EndOfObject
    \/ SI_NextPage
    \/ SI_Break

SpecS3 == S3Init /\ [][S3Next]_vars

(***************************************************************************)
(* SQL row streaming (GetConnectionDataStream, MysqlConfig and PgConfig    *)
(* branches), from NewDbFromConnectionConfig / NewPgPoolFromConnectionConfig *)
(* on: the schema and table are validated.  The backend answers each call  *)
(* as the call is made.                                                    *)
(***************************************************************************)

\* col.DataTypeOID of a column: 1082 is date, 2950 is uuid, 25 (text) stands
\* for every other type
OidDate == 1082
OidUuid == 2950
OidText == 25
Oids == {OidDate, OidUuid, OidText}

\* r.FieldDescriptions() / r.Columns(): the columns of the table, in order
FieldDescriptions ==
    {fd \in SeqsOver(Oids, MaxColumns) : Len(fd) >= 1}

\* a time.Time: seconds since January 1 of year 1 (the zero time) and the
\* nanoseconds within the second
Time(sec, nsec) == [sec |-> sec, nsec |-> nsec]

\* a []byte: nil, or its content.  A content is a text, the 16 bytes of a
\* uuid, or the bytes the backend sent for a value of another type.
NilPayload == [nil |-> TRUE, form |-> "", of |-> 0]
Payload(form, of) == [nil |-> FALSE, form |-> form, of |-> of]

\* What the driver holds for one column of the record at hand: a SQL NULL or
\* a value.  A date arrives as a time.Time at midnight, or as a value that is
\* no time.Time (infinity); a uuid arrives as its 16 bytes or as its text.
Null == [null |-> TRUE, type |-> "", of |-> 0]
Value(type, of) == [null |-> FALSE, type |-> type, of |-> of]
ColumnValues(oid) ==
    {Null} \cup
    CASE oid = OidDate -> {Value("time.Time", 86400), Value("infinity", 0)}
      [] oid = OidUuid -> {Value("uuid16", 7), Value("uuidText", 7)}
      [] OTHER -> {Value("raw", 3)}

\* the records a cursor over the columns fd can hold
Records(fd) ==
    {rec \in [DOMAIN fd -> UNION {ColumnValues(o) : o \in Oids}] :
        \A c \in DOMAIN fd : rec[c] \in ColumnValues(fd[c])}

\* rows.Scan into &values[i]: the bytes as the backend sent them, nil for NULL
rawBytes(v) ==
    IF v.null THEN NilPayload
    ELSE CASE v.type = "uuid16" -> Payload("uuid16", v.of)
           [] v.type = "uuidText" -> Payload("uuidText", v.of)
           [] OTHER -> Payload("raw", v.of)

\* var t time.Time: the zero time
ZeroTime == Time(0, 0)

\* DateScanner.Scan(input): the time left in *ds.val and whether an error is
\* returned
DateScannerScan(v) ==
    IF v.null THEN [err |-> FALSE, val |-> ZeroTime]
    ELSE IF v.type = "time.Time" THEN [err |-> FALSE, val |-> Time(v.of, 0)]
    ELSE [err |-> TRUE, val |-> ZeroTime]

\* ds.val.Format(time.RFC3339): the text of the time to the second
FormatRFC3339(t) == Payload("rfc3339", t.sec)

\* time.Parse(time.RFC3339, text)
ParseRFC3339(b) == Time(b.of, 0)

\* uuid.FromBytes(v) succeeds on 16 bytes only; uuidValue.String() is the
\* canonical text
uuidFromBytesFails(b) == b.nil \/ b.form # "uuid16"
uuidString(b) == Payload("uuidText", b.of)

\* rows.Scan(valuesWrapped...) fails: a date column holds no time.Time
pgScanFails(fd, rec) ==
    \E c \in DOMAIN fd : fd[c] = OidDate /\ DateScannerScan(rec[c]).err

\* row[col] of the Postgres branch
pgPayload_RawUuid(oid, v) ==
    IF oid = OidDate
    THEN FormatRFC3339(DateScannerScan(v).val)
    ELSE rawBytes(v)
pgPayload(oid, v) ==
    IF oid = OidDate
    THEN FormatRFC3339(DateScannerScan(v).val)
    ELSE IF oid = OidUuid
         THEN IF uuidFromBytesFails(rawBytes(v)) THEN rawBytes(v)
              ELSE uuidString(rawBytes(v))
         ELSE rawBytes(v)

\* row[col] of the MySQL branch
mysqlPayload(oid, v) == rawBytes(v)

\* the row map, keyed by the column's place
rowOf(kind, fd, rec) ==
    [c \in DOMAIN fd |->
        IF kind = "pg" THEN pgPayload(fd[c], rec[c]) ELSE mysqlPayload(fd[c], rec[c])]

\* The resources of a call: the connection (pool), the cursor r of the
\* LIMIT 1 probe and the cursor rows of the select.
Resources == {"conn", "r", "rows"}

NoRecord == <<>>

\* The state of one call.  open holds the resources acquired and not
\* released, deferred those a registered defer releases at the return;
\* total counts the table's rows, left those the cursor still delivers and
\* broken tells that the cursor then fails instead of ending.
SqlInit ==
    /\ sql \in [kind : SqlKinds, pc : {"NewDb"}, err : {""}, open : {{}},
                deferred : {{}}, fd : {<<>>}, total : {0}, left : {0},
                broken : {FALSE}, failed : {FALSE}, rec : {NoRecord},
                row : {NoRecord}, sent : {0}, cancelled : {FALSE},
                sentAfterCancel : {FALSE}]
    /\ RunResIdle
    /\ DispatchIdle
    /\ S3Idle
    /\ ConsIdle

sqlFrame == <<rrVars, dVars, s3, cons>>

SqlAt(pc) == sql.pc = pc

\* return err: the deferred calls run, the locals are gone
SqlReturned(s, err) ==
    [s EXCEPT !.pc = "done", !.err = err, !.open = @ \ s.deferred,
              !.rec = NoRecord, !.row = NoRecord]

\* defer conn.Close() of the MySQL branch comes before conn.Open()
deferredAtNewDb(kind) == IF kind = "mysql" THEN {"conn"} ELSE {}

\* defer conn.Close() of the Postgres branch comes after conn.Open(ctx)
deferredAtOpen(kind) == IF kind = "pg" THEN {"conn"} ELSE {}

\* defer r.Close() and defer rows.Close(): the Postgres branch only
deferredAtQuery(kind, cursor) == IF kind = "pg" THEN {cursor} ELSE {}

\* NewDbFromConnectionConfig / NewPgPoolFromConnectionConfig fails
SQ_NewDbFails ==
    /\ SqlAt("NewDb")
    /\ sql' = SqlReturned(sql, "ConnectionError")
    /\ UNCHANGED sqlFrame

SQ_NewDb ==
    /\ SqlAt("NewDb")
    /\ sql' = [sql EXCEPT !.pc = "Open",
                          !.deferred = @ \cup deferredAtNewDb(sql.kind)]
    /\ UNCHANGED sqlFrame

\* db, err := conn.Open() fails
SQ_OpenFails ==
    /\ SqlAt("Open")
    /\ sql' = SqlReturned(sql, "ConnectionError")
    /\ UNCHANGED sqlFrame

SQ_Open ==
    /\ SqlAt("Open")
    /\ sql' = [sql EXCEPT !.pc = "probe",
                          !.open = @ \cup {"conn"},
                          !.deferred = @ \cup deferredAtOpen(sql.kind)]
    /\ UNCHANGED sqlFrame

\* SELECT * FROM <table> LIMIT 1 fails with an error that is not NoRows
SQ_ProbeFails ==
    /\ SqlAt("probe")
    /\ sql' = SqlReturned(sql, "QueryError")
    /\ UNCHANGED sqlFrame

\* the probe gives the cursor r and, through it, the column names
SQ_Probe ==
    /\ SqlAt("probe")
    /\ \E fd \in FieldDescriptions :
           sql' = [sql EXCEPT !.pc = "select",
                              !.fd = fd,
                              !.open = @ \cup {"r"},
                              !.deferred = @ \cup deferredAtQuery(sql.kind, "r")]
    /\ UNCHANGED sqlFrame

\* SELECT <columns> FROM <table> fails with an error that is not NoRows
SQ_SelectFails ==
    /\ SqlAt("select")
    /\ sql' = SqlReturned(sql, "QueryError")
    /\ UNCHANGED sqlFrame

\* the select gives the cursor rows over the table's rows; the cursor
\* delivers them all, or fails after some of them
SQ_Select ==
    /\ SqlAt("select")
    /\ \E n \in 0..MaxRows, k \in 0..MaxRows, b \in BOOLEAN :
           /\ k <= n
           /\ ~b => k = n
           /\ sql' = [sql EXCEPT !.pc = "Next",
                                 !.total = n,
                                 !.left = k,
                                 !.broken = b,
                                 !.open = @ \cup {"rows"},
                                 !.deferred = @ \cup deferredAtQuery(sql.kind, "rows")]
    /\ UNCHANGED sqlFrame

\* rows.Next() is true and rows.Scan(valuesWrapped...) fails
SQ_ScanFails ==
    /\ SqlAt("Next")
    /\ sql.left > 0
    /\ \E rec \in Records(sql.fd) :
           /\ sql.kind = "pg"
           /\ pgScanFails(sql.fd, rec)
           /\ sql' = SqlReturned([sql EXCEPT !.left = @ - 1], "ScanError")
    /\ UNCHANGED sqlFrame

\* rows.Next() is true, the record is scanned and the row map filled
SQ_Scan ==
    /\ SqlAt("Next")
    /\ sql.left > 0
    /\ \E rec \in Records(sql.fd) :
           /\ ~(sql.kind = "pg" /\ pgScanFails(sql.fd, rec))
           /\ sql' = [sql EXCEPT !.pc = "Send",
                                 !.left = @ - 1,
                                 !.rec = rec,
                                 !.row = rowOf(sql.kind, sql.fd, rec)]
    /\ UNCHANGED sqlFrame

\* stream.Send(&...{Row: row}) fails
SQ_SendFails ==
    /\ SqlAt("Send")
    /\ sql' = SqlReturned(sql, "SendError")
    /\ UNCHANGED sqlFrame

SQ_Send ==
    /\ SqlAt("Send")
    /\ sql' = [sql EXCEPT !.pc = "Next", !.sent = @ + 1,
                          !.sentAfterCancel = @ \/ sql.cancelled,
                          !.rec = NoRecord, !.row = NoRecord]
    /\ UNCHANGED sqlFrame

\* rows.Next() is false, at the end of the rows or at a cursor error, and
\* the cursor closes itself; the loop ends and the call returns nil
SQ_EndOfRows ==
    /\ SqlAt("Next")
    /\ sql.left = 0
    /\ sql' = SqlReturned([sql EXCEPT !.open = @ \ {"rows"},
                                      !.failed = sql.broken], "")
    /\ UNCHANGED sqlFrame

\* the caller cancels ctx while the loop runs: the cursor opened with
\* QueryContext(ctx, ...) or Query(ctx, ...) fails, at once or after some of
\* the rows it has already read; the loop itself never looks at ctx
SQ_CtxCancel ==
    /\ sql.pc \in {"Next", "Send"}
    /\ ~sql.cancelled
    /\ \E k \in 0..sql.left :
           sql' = [sql EXCEPT !.cancelled = TRUE,
                              !.left = k,
                              !.broken = @ \/ k < sql.left]
    /\ UNCHANGED sqlFrame

SqlNext ==
    \/ SQ_CtxCancel
    \/ SQ_NewDbFails
    \/ SQ_NewDb
    \/ SQ_OpenFails
    \/ SQ_Open
    \/ SQ_ProbeFails
    \/ SQ_Probe
    \/ SQ_SelectFails
    \/ SQ_Select
    \/ SQ_ScanFails
    \/ SQ_Scan
    \/ SQ_SendFails
    \/ SQ_Send
    \/ SQ_EndOfRows

SpecSql == SqlInit /\ [][SqlNext]_vars

(***************************************************************************)
(* Constraint responses: the loops of GetConnectionForeignConstraints and   *)
(* GetConnectionTableConstraints over the foreign-key constraints of one   *)
(* table, as the SQL manager hands them over.  The constraints are taken   *)
(* one at a time, as the loop takes them.                                  *)
(***************************************************************************)
MaxConstraints == 2
MaxFkColumns == 2

FkColumnNames == {"a", "b"}
RefColumnNames == {"x", "y"}
RefTables == {"public.p"}

\* a foreign-key constraint of the SQL manager: Columns, NotNullable and
\* ForeignKey.Columns run in parallel; the lists handed over may fall short
\* of Columns by one
ForeignConstraints ==
    {c \in [Columns : {s \in SeqsOver(FkColumnNames, MaxFkColumns) : Len(s) >= 1},
            NotNullable : SeqsOver(BOOLEAN, MaxFkColumns),
            ForeignKey : [Table : RefTables,
                          Columns : SeqsOver(RefColumnNames, MaxFkColumns)]] :
        /\ Len(c.NotNullable) \in {Len(c.Columns), Len(c.Columns) - 1}
        /\ Len(c.ForeignKey.Columns) \in {Len(c.Columns), Len(c.Columns) - 1}}

NoConstraint ==
    [Columns |-> <<>>, NotNullable |-> <<>>,
     ForeignKey |-> [Table |-> "", Columns |-> <<>>]]

\* constraint.NotNullable[idx] or constraint.ForeignKey.Columns[idx] lies
\* beyond the end of its list for some idx of constraint.Columns
indexOutOfRange(constraint) ==
    \/ Len(constraint.NotNullable) < Len(constraint.Columns)
    \/ Len(constraint.ForeignKey.Columns) < Len(constraint.Columns)

\* for idx, col := range constraint.Columns { append(..., &ForeignConstraint{...}) }
foreignConstraints_NotNullable(constraint) ==
    [idx \in 1..Len(constraint.Columns) |->
        [Column |-> constraint.Columns[idx],
         IsNullable |-> constraint.NotNullable[idx],
         ForeignKey |-> [Table |-> constraint.ForeignKey.Table,
                         Column |-> constraint.ForeignKey.Columns[idx]]]]
foreignConstraints(constraint) ==
    [idx \in 1..Len(constraint.Columns) |->
        [Column |-> constraint.Columns[idx],
         IsNullable |-> ~constraint.NotNullable[idx],
         ForeignKey |-> [Table |-> constraint.ForeignKey.Table,
                         Column |-> constraint.ForeignKey.Columns[idx]]]]

\* &mgmtv1alpha1.ForeignConstraint{Columns: ..., NotNullable: ..., ForeignKey: ...}
tableForeignConstraint(constraint) ==
    [Columns |-> constraint.Columns,
     NotNullable |-> constraint.NotNullable,
     ForeignKey |-> [Table |-> constraint.ForeignKey.Table,
                     Columns |-> constraint.ForeignKey.Columns]]

\* a unique constraint of the SQL manager: the list of its columns
UniqueConstraintsOf ==
    {uc \in SeqsOver(FkColumnNames, MaxFkColumns) : Len(uc) >= 1}

\* columns = append(columns, c...)
appendColumns_Last(cols, c) == c
appendColumns(cols, c) == cols \o c

\* append(uniqueConstraintsMap[table].Constraints, &mgmtv1alpha1.UniqueConstraint{Columns: uc})
uniqueConstraints(constraints, uc) == Append(constraints, [Columns |-> uc])

\* The state of one call, for one table of the map: n counts the table's
\* foreign-key constraints taken, constraint is the latest of them,
\* appended what the loop appended for it, and len is
\* len(tableConstraints[tableName].Constraints).  For the unique constraints,
\* uc lists those taken, Columns is the column list built by
\* GetConnectionUniqueConstraints and Constraints the list built by
\* GetConnectionTableConstraints.
ConsInit ==
    /\ cons \in [op : {"GetConnectionForeignConstraints", "GetConnectionTableConstraints",
                       "GetConnectionUniqueConstraints"},
                 pc : {"range"}, n : {0}, constraint : {NoConstraint},
                 appended : {<<>>}, len : {0}, err : {""},
                 uc : {<<>>}, Columns : {<<>>}, Constraints : {<<>>}]
    /\ RunResIdle
    /\ DispatchIdle
    /\ S3Idle
    /\ SqlIdle

consFrame == <<rrVars, dVars, s3, sql>>

ConsAt(op, pc) == cons.op = op /\ cons.pc = pc

\* the next constraint of the table, in GetConnectionForeignConstraints
FC_Constraint ==
    /\ ConsAt("GetConnectionForeignConstraints", "range")
    /\ cons.n < MaxConstraints
    /\ \E c \in ForeignConstraints :
           /\ ~indexOutOfRange(c)
           /\ cons' = [cons EXCEPT !.n = @ + 1,
                                   !.constraint = c,
                                   !.appended = foreignConstraints(c),
                                   !.len = @ + Len(foreignConstraints(c))]
    /\ UNCHANGED consFrame

\* the constraint's lists are not of one length: the index expression panics
FC_IndexOutOfRange ==
    /\ ConsAt("GetConnectionForeignConstraints", "range")
    /\ cons.n < MaxConstraints
    /\ \E c \in ForeignConstraints :
           /\ indexOutOfRange(c)
           /\ cons' = [cons EXCEPT !.pc = "done", !.err = "panic",
                                   !.n = @ + 1,
                                   !.constraint = c,
                                   !.appended = <<>>]
    /\ UNCHANGED consFrame

\* the table's constraints are through: the response is returned
FC_Return ==
    /\ ConsAt("GetConnectionForeignConstraints", "range")
    /\ cons' = [cons EXCEPT !.pc = "done"]
    /\ UNCHANGED consFrame

\* the next constraint of the table, in GetConnectionTableConstraints
TC_Constraint ==
    /\ ConsAt("GetConnectionTableConstraints", "range")
    /\ cons.n < MaxConstraints
    /\ \E c \in ForeignConstraints :
           cons' = [cons EXCEPT !.n = @ + 1,
                                !.constraint = c,
                                !.appended = <<tableForeignConstraint(c)>>,
                                !.len = @ + 1]
    /\ UNCHANGED consFrame

\* the table's foreign keys are through; the primary keys are handed on as
\* they are and the loop over tableConstraints.UniqueConstraints begins
TC_UniqueConstraints ==
    /\ ConsAt("GetConnectionTableConstraints", "range")
    /\ cons' = [cons EXCEPT !.pc = "uniqueRange", !.n = 0,
                            !.constraint = NoConstraint, !.appended = <<>>]
    /\ UNCHANGED consFrame

\* for _, uc := range uniqueConstraints
TC_UniqueConstraint ==
    /\ ConsAt("GetConnectionTableConstraints", "uniqueRange")
    /\ Len(cons.uc) < MaxConstraints
    /\ \E uc \in UniqueConstraintsOf :
           cons' = [cons EXCEPT !.uc = Append(@, uc),
                                !.Constraints = uniqueConstraints(@, uc)]
    /\ UNCHANGED consFrame

TC_Return ==
    /\ ConsAt("GetConnectionTableConstraints", "uniqueRange")
    /\ cons' = [cons EXCEPT !.pc = "done"]
    /\ UNCHANGED consFrame

\* for _, c := range uc, in GetConnectionUniqueConstraints
UC_Constraint ==
    /\ ConsAt("GetConnectionUniqueConstraints", "range")
    /\ Len(cons.uc) < MaxConstraints
    /\ \E c \in UniqueConstraintsOf :
           cons' = [cons EXCEPT !.uc = Append(@, c),
                                !.Columns = appendColumns(@, c)]
    /\ UNCHANGED consFrame

\* tableConstraints[tableName] = &mgmtv1alpha1.UniqueConstraint{Columns: columns}
UC_Return ==
    /\ ConsAt("GetConnectionUniqueConstraints", "range")
    /\ cons' = [cons EXCEPT !.pc = "done"]
    /\ UNCHANGED consFrame

ConsNext ==
    \/ FC_Constraint
    \/ FC_IndexOutOfRange
    \/ FC_Return
    \/ TC_Constraint
    \/ TC_UniqueConstraints
    \/ TC_UniqueConstraint
    \/ TC_Return
    \/ UC_Constraint
    \/ UC_Return

SpecCons == ConsInit /\ [][ConsNext]_vars

(***************************************************************************)
(* Claims on run resolution                                                *)
(***************************************************************************)
\* The prefix workflows/<r>/activities/ lists at least one key.
PrefixHasKeys(r) == s3Activities[r].kind = "out" /\ s3Activities[r].KeyCount >= 1

IsNewestFirst(s) == \A a, b \in DOMAIN s : a < b => s[a] > s[b]
IsNewestLast(s) == \A a, b \in DOMAIN s : a < b => s[a] < s[b]

ReturnedMostRecentWithData ==
    /\ runId \in Range(jobRuns)
    /\ PrefixHasKeys(runId)
    /\ \A r \in Range(jobRuns) : r > runId => ~PrefixHasKeys(r)

\* C1 (as claimed): for a run history handed over newest-first, the run
\* returned by getLastestJobRunFromAwsS3 has a non-empty prefix and no more
\* recent run of the history has a non-empty prefix.
C1_MostRecentOfNewestFirstHistory ==
    (rrPc = "done" /\ rrErr = "" /\ IsNewestFirst(jobRuns))
        => ReturnedMostRecentWithData

\* C1 (amended): for a run history handed over oldest-first (newest last),
\* the run returned by getLastestJobRunFromAwsS3 has a non-empty prefix and
\* no more recent run of the history has a non-empty prefix, also when two
\* or more runs have data.
C1_MostRecentOfNewestLastHistory ==
    (rrPc = "done" /\ rrErr = "" /\ IsNewestLast(jobRuns))
        => ReturnedMostRecentWithData

\* C1 witness: a run was returned from a newest-last history of which two
\* or more runs have data.
C1_Witness ==
    /\ rrPc = "done"
    /\ rrErr = ""
    /\ IsNewestLast(jobRuns)
    /\ Cardinality({r \in Range(jobRuns) : PrefixHasKeys(r)}) >= 2
    /\ runId # NoRun

\* C2 (as claimed): when every listing answers and no run of the history
\* (an empty history included) has a key under its prefix, run resolution
\* fails with NotFound and returns no run id.
C2_NoRunWithDataIsNotFound ==
    (/\ rrPc = "done"
     /\ rrErr \notin {"JobServiceError", "ListError"}
     /\ \A r \in Range(jobRuns) : ~PrefixHasKeys(r))
        => (rrErr = "NotFound" /\ runId = NoRun)

(***************************************************************************)
(* Claims on the dispatch and validation layer                             *)
(***************************************************************************)
AccountOf(id) ==
    IF id = connection.Id THEN connection.AccountId ELSE dbconnection.AccountId

\* C3 (as claimed): in every entry point a connection's backend is touched
\* only after the caller was authorized against that connection's account
\* (the AI connection and the data connection of GetAiGeneratedData alike),
\* so a request whose authorization fails touches no backend.
C3_AuthorizedBeforeBackendTouched ==
    \A id \in call.touched : AccountOf(id) \in call.verified

SchemasOf(columns) == {c.Schema : c \in columns}
TablesOf(columns) == {c.Table : c \in columns}

\* The request is a Postgres/MySQL row-streaming request, the schema was
\* introspected, and the requested schema or table is not in it.
StreamOfUnknownSchemaOrTable ==
    /\ req.op = "GetConnectionDataStream"
    /\ connection.kind \in SqlKinds
    /\ call.schemas.ok
    /\ (req.Schema \notin SchemasOf(call.schemas.cols)
        \/ req.Table \notin TablesOf(call.schemas.cols))

\* C4: a Postgres or MySQL row-streaming request whose schema or table is
\* not a member of the introspected schema fails with BadRequest, issues no
\* query against the requested table and sends no row to the sink.
C4_UnknownSchemaOrTableIsBadRequest ==
    StreamOfUnknownSchemaOrTable
        => /\ call.queries = 0
           /\ call.sent = 0
           /\ call.pc \in {"areSchemaAndTableValid", "done"}
           /\ (call.pc = "done" => call.err = "BadRequest" /\ call.resp = "")

\* C4 witness: such a request was rejected, its schema being known and its
\* table unknown.
C4_Witness ==
    /\ StreamOfUnknownSchemaOrTable
    /\ req.Schema \in SchemasOf(call.schemas.cols)
    /\ call.pc = "done"
    /\ call.err = "BadRequest"

\* C5 (as claimed): GetTableRowCount reaches the count query only for a
\* schema and a table that are members of the connection's introspected
\* schema.
C5_RowCountValidatesSchemaAndTable ==
    (req.op = "GetTableRowCount" /\ call.countQueries > 0)
        => (req.Schema \in SchemasOf(catalog) /\ req.Table \in TablesOf(catalog))

\* The backend kind the entry point does not support: the kinds its switch
\* (or, for the constraint getters, getConnectionSchema's switch) has no case
\* for; for GetAiGeneratedData the kind of the data connection.
UnsupportedKind ==
    CASE req.op \in {"GetConnectionDataStream", "GetConnectionSchema"} ->
           connection.kind \notin {"pg", "mysql", "awsS3"}
      [] req.op \in ConstraintOps -> connection.kind \notin {"pg", "mysql", "awsS3"}
      [] req.op = "GetConnectionInitStatements" -> connection.kind \notin {"pg", "mysql"}
      [] req.op = "GetAiGeneratedData" -> dbconnection.kind \notin {"pg", "mysql"}
      [] OTHER -> FALSE

\* C6 (as claimed): an entry point that receives a connection of a kind it
\* does not support (and whose connection lookup and authorization passed)
\* fails with NotImplemented, never with a success.
C6_UnsupportedKindIsNotImplemented ==
    (/\ call.pc = "done"
     /\ UnsupportedKind
     /\ call.err \notin {"GetConnectionError", "Unauthorized"})
        => call.err = "NotImplemented"


(***************************************************************************)
(* Claims on S3 row streaming and S3 schema inference                      *)
(***************************************************************************)

\* what the payload stored for a line's value has to be
PayloadOf(v, b) ==
    IF v.quoted THEN b = Bytes(FALSE, v.text)
    ELSE IF v.text = "null" THEN b.nil
    ELSE /\ ~b.nil
         /\ ~b.quoted
         /\ GoValue(JsonLiteral(b.text)) = GoValue(v)

\* C7: the Row handed to the sink has exactly the keys of the JSON line; a
\* JSON string is stored as its raw unquoted bytes (the string "null"
\* included), a JSON null as a nil payload, and any other value as a JSON
\* encoding of that value.
C7_RowOfJsonLine ==
    S3At("stream", "Send") =>
        /\ DOMAIN s3.rowMap = DOMAIN s3.line.fields
        /\ \A k \in DOMAIN s3.rowMap : PayloadOf(s3.line.fields[k], s3.rowMap[k])

\* C7 witness: the line {"a": "x", "b": 5, "c": null} is about to be sent
\* as {a: x, b: 5, c: nil}.
C7_Witness ==
    /\ S3At("stream", "Send")
    /\ s3.line.fields = [k \in Keys |->
                            CASE k = "a" -> JsonString("x")
                              [] k = "b" -> JsonLiteral("5")
                              [] OTHER -> JsonLiteral("null")]
    /\ s3.rowMap = [k \in Keys |->
                       CASE k = "a" -> Bytes(FALSE, "x")
                         [] k = "b" -> Bytes(FALSE, "5")
                         [] OTHER -> NilBytes]

\* a listing call carries no token at first and the token of the latest
\* page afterwards, and is made again only after a truncated page
TokensChained ==
    /\ s3.pc = "list" =>
           IF s3.pages = 0
           THEN s3.pageToken = ""
           ELSE /\ s3.output.IsTruncated
                /\ s3.pageToken = s3.output.NextContinuationToken
    /\ s3.pc # "list" => s3.called = s3.pageToken

\* C8: streaming lists again only after a truncated page and with that
\* page's continuation token; it returns successfully only when the last
\* page was not truncated (or the listing gave no output at all), and then
\* every object of every page has been fetched and every line of those
\* objects has been sent, once.
C8_PaginationAndRowTotal ==
    s3.op = "stream" =>
        /\ TokensChained
        /\ (s3.pc = "done" /\ s3.err = "") =>
               /\ ~s3.noOutput => (s3.pages >= 1 /\ ~s3.output.IsTruncated)
               /\ s3.unfetched = 0
               /\ s3.unsent = 0

\* C8 witness: a successful stream whose second page was listed with the
\* token of the first and held an object with lines.
C8_Witness ==
    /\ S3At("stream", "done")
    /\ s3.err = ""
    /\ s3.pages = 2
    /\ s3.called = "t2"
    /\ s3.output.n = MaxObjects
    /\ s3.idx = MaxObjects
    /\ s3.sentHere = MaxLines

\* C9: when streaming has run into a corrupt gzip object, the call returns
\* an error and no row of that object has been sent.
C9_NoRowOfCorruptObject ==
    (S3At("stream", "done") /\ s3.corrupt) =>
        /\ s3.err # ""
        /\ s3.sentHere = 0

\* C10: the readers open belong to one object at most, and none is open
\* between objects, while listing, or once the call has returned.
C10_ReadersReleased ==
    /\ Cardinality({r.obj : r \in s3.open}) <= 1
    /\ s3.pc \in {"list", "contents", "prefixes", "truncated", "GetObject", "done"}
           => s3.open = {}

\* C10 witness: the call fails on its second object, after the first was
\* read and closed, and has no reader open.
C10_Witness ==
    /\ s3.pc = "done"
    /\ s3.err \in {"SendError", "JsonError", "ScanError", "GzipError"}
    /\ s3.idx = 1
    /\ s3.open = {}

(***************************************************************************)
(* Claims on SQL row streaming                                             *)
(***************************************************************************)

\* C11: when a SQL row streaming call has returned, by success or by any
\* error, every connection and every cursor it acquired has been released.
C11_SqlResourcesReleased ==
    sql.pc = "done" => sql.open = {}

\* C12: a SQL row streaming call whose cursor failed while iterating, after
\* rows were sent, returns an error, and a call that returns success has
\* sent every row of the table.
C12_NoSilentPrefix ==
    sql.pc = "done" =>
        /\ (sql.failed /\ sql.sent >= 1) => sql.err # ""
        /\ sql.err = "" => sql.sent = sql.total

(***************************************************************************)
(* Claims on GetConnectionInitStatements                                   *)
(***************************************************************************)

\* the errors a failing collaborator call hands to the entry point
CollaboratorErrors ==
    {"GetConnectionError", "Unauthorized", "ConnectionError", "QueryError", "BuildError"}

InitStatementsDone(kind) ==
    /\ Op("GetConnectionInitStatements")
    /\ At("done")
    /\ connection.kind = kind

\* the tables of the introspected schema
CatalogTables == {<<c.Schema, c.Table>> : c \in catalog}

\* C13: GetConnectionInitStatements on a Postgres connection with
\* truncateCascade = false and truncateBeforeInsert = true returns no create
\* and no truncate statements, whatever InitSchema is, and the error it
\* returns is NotImplemented unless a collaborator call failed before.
C13_PgPlainTruncateNotImplemented ==
    (InitStatementsDone("pg") /\ ~req.TruncateCascade /\ req.TruncateBeforeInsert) =>
        /\ call.err \in {"NotImplemented"} \cup CollaboratorErrors
        /\ call.resp = ""
        /\ call.createStmts = {}
        /\ call.truncateStmts = {}

\* C13 witness: the request asks for the schema too, the tables' create
\* statements were fetched, and the call ends with NotImplemented.
C13_Witness ==
    /\ InitStatementsDone("pg")
    /\ ~req.TruncateCascade
    /\ req.TruncateBeforeInsert
    /\ req.InitSchema
    /\ catalog # {}
    /\ connection.Id \in call.touched
    /\ call.err = "NotImplemented"

\* C14: with a supported truncation requested (Postgres with truncateCascade,
\* MySQL with truncateBeforeInsert) the call does not end with NotImplemented
\* and fails only when a collaborator call fails; when it succeeds, the
\* truncate statements are one for each table of the introspected schema and
\* none else.
C14_OneTruncateStatementPerTable ==
    ((InitStatementsDone("pg") /\ req.TruncateCascade)
         \/ (InitStatementsDone("mysql") /\ req.TruncateBeforeInsert)) =>
        /\ call.err \in {""} \cup CollaboratorErrors
        /\ call.err = "" =>
               /\ {st.table : st \in call.truncateStmts} = CatalogTables
               /\ Cardinality(call.truncateStmts) = Cardinality(CatalogTables)

\* C14 witness: a MySQL table of two columns gets its one truncate
\* statement.
C14_Witness ==
    /\ InitStatementsDone("mysql")
    /\ req.TruncateBeforeInsert
    /\ call.err = ""
    /\ Cardinality(catalog) = 2
    /\ Cardinality(CatalogTables) = 1
    /\ Cardinality(call.truncateStmts) = 1

(***************************************************************************)
(* Claims on the constraint responses                                      *)
(***************************************************************************)

\* the three lists of a constraint are of one length
IsAligned(c) ==
    /\ Len(c.NotNullable) = Len(c.Columns)
    /\ Len(c.ForeignKey.Columns) = Len(c.Columns)

\* C15: for a constraint whose columns, not-null flags and referenced
\* columns are of one length n, GetConnectionForeignConstraints appends n
\* entries, the i-th with column c[i], referenced column r[i] of the
\* referenced table and IsNullable = not f[i]; GetConnectionTableConstraints
\* appends one entry with the three lists unchanged, of equal length.
C15_ForeignKeyAlignment ==
    (cons.pc # "idle" /\ cons.n >= 1 /\ IsAligned(cons.constraint)) =>
        LET c == cons.constraint
            out == cons.appended
        IN  /\ cons.err = ""
            /\ cons.op = "GetConnectionForeignConstraints" =>
                   /\ Len(out) = Len(c.Columns)
                   /\ \A k \in 1..Len(out) :
                          /\ out[k].Column = c.Columns[k]
                          /\ out[k].IsNullable = ~c.NotNullable[k]
                          /\ out[k].ForeignKey.Table = c.ForeignKey.Table
                          /\ out[k].ForeignKey.Column = c.ForeignKey.Columns[k]
            /\ cons.op = "GetConnectionTableConstraints" =>
                   /\ Len(out) = 1
                   /\ out[1].Columns = c.Columns
                   /\ out[1].NotNullable = c.NotNullable
                   /\ out[1].ForeignKey.Table = c.ForeignKey.Table
                   /\ out[1].ForeignKey.Columns = c.ForeignKey.Columns
                   /\ Len(out[1].NotNullable) = Len(out[1].Columns)
                   /\ Len(out[1].ForeignKey.Columns) = Len(out[1].Columns)

\* C15 witness: the second constraint of a table, over two columns with
\* different flags and different referenced columns, has its two entries.
C15_Witness ==
    /\ cons.pc = "done"
    /\ cons.op = "GetConnectionForeignConstraints"
    /\ cons.err = ""
    /\ cons.n = 2
    /\ cons.constraint.Columns = <<"a", "b">>
    /\ cons.constraint.NotNullable = <<TRUE, FALSE>>
    /\ cons.constraint.ForeignKey.Columns = <<"y", "x">>
    /\ Len(cons.appended) = 2
    /\ cons.len >= 3

\* C16: a SQL NULL in a column of the record yields a nil payload for that
\* column in the row handed to the sink, whatever the column's type.
C16_NullIsNilPayload ==
    SqlAt("Send") =>
        \A c \in DOMAIN sql.rec : sql.rec[c].null => sql.row[c].nil

\* the bytes of a value as the backend sent them
RawOf(v) ==
    Payload(IF v.type \in {"uuid16", "uuidText"} THEN v.type ELSE "raw", v.of)

\* C17: in the row handed to the sink, a non-null Postgres date is the
\* RFC-3339 text of the scanned time, which parses back to that time; a
\* non-null Postgres uuid is the canonical text of the uuid; every other
\* non-null Postgres value and every non-null MySQL value is the bytes the
\* backend sent.
C17_ValueEncoding ==
    SqlAt("Send") =>
        \A c \in DOMAIN sql.rec :
            LET v == sql.rec[c]
                b == sql.row[c]
            IN  ~v.null =>
                    CASE sql.kind = "pg" /\ sql.fd[c] = OidDate ->
                           /\ ~b.nil
                           /\ b.form = "rfc3339"
                           /\ ParseRFC3339(b) = Time(v.of, 0)
                      [] sql.kind = "pg" /\ sql.fd[c] = OidUuid ->
                           b = Payload("uuidText", v.of)
                      [] OTHER -> b = RawOf(v)

\* C17 witness: a Postgres record with a date and a uuid in its 16 bytes is
\* about to be sent as the date's RFC-3339 text and the uuid's text.
C17_Witness ==
    /\ SqlAt("Send")
    /\ sql.kind = "pg"
    /\ sql.fd = <<OidDate, OidUuid>>
    /\ sql.rec = <<Value("time.Time", 86400), Value("uuid16", 7)>>
    /\ sql.row = <<Payload("rfc3339", 86400), Payload("uuidText", 7)>>

(***************************************************************************)
(* Claims on S3 requests at the dispatch layer                             *)
(***************************************************************************)

\* C18: a row-streaming or schema request of an authorized caller on an S3
\* connection that carries neither a job id nor a run id ends with
\* BadRequest, and no S3 client was created for it.
C18_NoRunSelectorIsBadRequest ==
    (/\ At("done")
     /\ req.op \in {"GetConnectionDataStream", "GetConnectionSchema"}
     /\ connection.kind = "awsS3"
     /\ connection.AccountId \in call.verified
     /\ req.s3Cfg \in {"none", "noId"}) =>
        /\ call.err = "BadRequest"
        /\ connection.Id \notin call.touched

(***************************************************************************)
(* Claims on the S3 loops, continued                                       *)
(***************************************************************************)

\* C19: when S3 schema inference returns its response, every table prefix
\* listed has had the first line of its first data object read and its keys
\* appended as columns: no listed table is left out.
C19_EveryListedTableHasItsColumns ==
    (S3At("schema", "done") /\ s3.err = "") => s3.unfetched = 0

(***************************************************************************)
(* Claims on cancellation                                                  *)
(***************************************************************************)

\* C20: once the caller has cancelled the context of a table scan that has
\* rows left, no further row is sent and the call ends with an error.
C20_CancelStopsTheStream ==
    /\ sql.cancelled => ~sql.sentAfterCancel
    /\ (SqlAt("done") /\ sql.cancelled /\ sql.failed) => sql.err # ""

(***************************************************************************)
(* Claims on GetAiGeneratedData                                            *)
(***************************************************************************)

\* C21: GetAiGeneratedData returns an error and no records when the model
\* answers no choice or when the first choice stopped at the token limit,
\* whose content is then never decoded; a content that does not decode is
\* returned as an error, not as an empty list of records.
C21_NoRecordsOfUnusableAnswer ==
    [][(At("ai_Choices") /\ call'.pc = "done") =>
          LET choices == call.chat.Choices
              failed == call'.err # "" /\ call'.resp = "" /\ call'.records = 0
          IN  /\ Len(choices) = 0 => failed /\ ~call'.decoded
              /\ (Len(choices) > 0 /\ choices[1].FinishReason = "length") =>
                     failed /\ ~call'.decoded
              /\ (Len(choices) > 0 /\ choices[1].FinishReason # "length"
                    /\ choices[1].Content \in {"truncated", "dataNotAList"}) =>
                     failed]_vars

C21_Witness ==
    /\ At("done")
    /\ Op("GetAiGeneratedData")
    /\ call.err \in {"NoChoices", "CompletionLimitReached", "UnmarshalError"}

(***************************************************************************)
(* Claims on the order of streaming                                        *)
(***************************************************************************)

\* the place of the stream in the listing: page, then item of the page
Place(s) == <<s.pages, s.idx>>
PlaceBefore(p, q) == p[1] < q[1] \/ (p[1] = q[1] /\ p[2] < q[2])

InFlight == s3.lineNo - s3.sentHere

PairIsIntrospected ==
    \E c \in call.schemas.cols : c.Schema = req.Schema /\ c.Table = req.Table

\* C24: a Postgres or MySQL row-streaming request whose (schema, table) pair
\* belongs to no introspected column is rejected with BadRequest: it goes no
\* further than areSchemaAndTableValid and issues no query.
C24_UnknownPairIsBadRequest ==
    (/\ req.op = "GetConnectionDataStream"
     /\ connection.kind \in SqlKinds
     /\ call.schemas.ok
     /\ ~PairIsIntrospected)
        => /\ call.queries = 0
           /\ call.pc \in {"areSchemaAndTableValid", "done"}
           /\ (call.pc = "done" => call.err = "BadRequest")

(***************************************************************************)
(* Claims on the resolution of the run at the dispatch layer               *)
(***************************************************************************)

\* C25: an S3 request that carries a run id uses it as given and never calls
\* getLastestJobRunFromAwsS3, so neither the job-run history nor a
\* run-existence listing is asked for; the helper is called only for a
\* request that carries a job id, whose run id is then the helper's.
C25_RunIdUsedAsGiven ==
    /\ call.resolved => (call.cfg = "jobId" \/ req.s3Cfg = "jobId")
    /\ (req.s3Cfg = "jobRunId" /\ call.pc # "idle") =>
           /\ ~call.resolved
           /\ call.jobRunId \in {"", "given"}
    /\ call.jobRunId = "resolved" => call.resolved

\* a stream of an explicit run has passed the Id switch and ended well
C25_Witness ==
    /\ At("done")
    /\ req.s3Cfg = "jobRunId"
    /\ call.jobRunId = "given"
    /\ call.resp \in {"stream", "schemas"}

(***************************************************************************)
(* Claims on the unique constraints                                        *)
(***************************************************************************)

RECURSIVE Concatenation(_)
Concatenation(lists) ==
    IF lists = <<>> THEN <<>>
    ELSE Head(lists) \o Concatenation(Tail(lists))

\* C26: for one table, GetConnectionUniqueConstraints returns one column
\* list, the concatenation in order of the column lists of the table's unique
\* constraints, and GetConnectionTableConstraints returns one UniqueConstraint
\* per constraint, in order, with that constraint's columns unchanged.
C26_UniqueConstraintsFlattenedOrKept ==
    /\ cons.op = "GetConnectionUniqueConstraints" =>
           cons.Columns = Concatenation(cons.uc)
    /\ (cons.op = "GetConnectionTableConstraints" /\ cons.pc \in {"uniqueRange", "done"}) =>
           /\ Len(cons.Constraints) = Len(cons.uc)
           /\ \A k \in 1..Len(cons.uc) : cons.Constraints[k].Columns = cons.uc[k]

\* two constraints, (a, b) and (b), flattened into (a, b, b)
C26_Witness ==
    /\ cons.pc = "done"
    /\ cons.op = "GetConnectionUniqueConstraints"
    /\ cons.uc = << <<"a", "b">>, <<"b">> >>
    /\ cons.Columns = <<"a", "b", "b">>

(***************************************************************************)
(* Claims on S3 schema inference                                           *)
(***************************************************************************)

\* C27: schema inference leaves a listing page, for the next page or for the
\* response, only when every table prefix of the page has been through the
\* loop, a table whose data listing gave nothing being the last of them or
\* followed by the others, and returns the response only after a page that is
\* not truncated.
C27_EveryTableOfEveryPage ==
    [][(/\ s3.op = "schema"
        /\ s3.pc \notin {"list", "done"}
        /\ (s3'.pc = "list" \/ (s3'.pc = "done" /\ s3'.err = ""))) =>
           /\ s3.pc = "truncated" => s3.idx + 1 = s3.output.n
           /\ s3.pc # "truncated" => s3.idx = s3.output.n
           /\ s3'.pc = "done" => ~s3.output.IsTruncated]_vars

\* C28: schema inference ends with a response or a returned error, never
\* with a crash: a listed table whose data listing has no object is passed
\* over and adds no column.
C28_NoCrashOnEmptyDataListing ==
    s3.op = "schema" => s3.err # "panic"

====
